---- MODULE Spec2Model ----
(***************************************************************************)
(* cq2pyg: conversion of a B-Rep shape into a heterogeneous graph.         *)
(*                                                                         *)
(* The model follows cadquery_to_pyg (converter.py) through                *)
(* extract_topology (topology.py), extract_*_geometry (geometry.py) and    *)
(* build_*_features (features.py).  The OpenCASCADE kernel is the oracle:  *)
(* a shape is a tree of occurrences of shared entities (TShapes), each     *)
(* with an identity, a hash code, an orientation and analytic geometry.    *)
(* Real numbers are represented by small integers.                         *)
(***************************************************************************)
EXTENDS Integers, Sequences, FiniteSets, TLC

(***************************************************************************)
(* Bounds of the model.                                                    *)
(***************************************************************************)
\* longest list of top-level children of a compound built from TopoKids
MaxKids == 2
\* longest list of top-level children of a compound built from GeomKids
MaxGeomKids == 2

\* the number of conversions made one after the other
MaxCalls == 3

\* the number of failures the kernel may raise during the conversions
MaxFaults == 2

\* the greatest number of poles of a curve, or of a row or column of a grid
MaxPoles == 3

(***************************************************************************)
(* types.py                                                                *)
(***************************************************************************)
CurveType_LINE == 0

CurveType_CIRCLE == 1

CurveType_ELLIPSE == 2

CurveType_HYPERBOLA == 3

CurveType_PARABOLA == 4

CurveType_BEZIER == 5

CurveType_BSPLINE == 6

CurveType_OFFSET == 7

CurveType_OTHER == 8

\* the members of the enumeration CurveType
CurveType ==
  {CurveType_LINE, CurveType_CIRCLE, CurveType_ELLIPSE, CurveType_HYPERBOLA,
   CurveType_PARABOLA, CurveType_BEZIER, CurveType_BSPLINE, CurveType_OFFSET,
   CurveType_OTHER}

SurfaceType_PLANE == 0

SurfaceType_CYLINDER == 1

SurfaceType_CONE == 2

SurfaceType_SPHERE == 3

SurfaceType_TORUS == 4

SurfaceType_BEZIER == 5

SurfaceType_BSPLINE == 6

SurfaceType_REVOLUTION == 7

SurfaceType_EXTRUSION == 8

SurfaceType_OFFSET == 9

SurfaceType_OTHER == 10

\* the members of the enumeration SurfaceType
SurfaceType ==
  {SurfaceType_PLANE, SurfaceType_CYLINDER, SurfaceType_CONE, SurfaceType_SPHERE,
   SurfaceType_TORUS, SurfaceType_BEZIER, SurfaceType_BSPLINE,
   SurfaceType_REVOLUTION, SurfaceType_EXTRUSION, SurfaceType_OFFSET,
   SurfaceType_OTHER}

NUM_CURVE_TYPES == Cardinality(CurveType)

NUM_SURFACE_TYPES == Cardinality(SurfaceType)

VERTEX_FEATURE_DIM == 3

CONTROL_POINT_FEATURE_DIM == 4

\* EDGE_FEATURE_DIM counting nine geometric parameters
EDGE_FEATURE_DIM_short == NUM_CURVE_TYPES + 1 + 1 + 1 + 2 + 9

EDGE_FEATURE_DIM == NUM_CURVE_TYPES + 1 + 1 + 1 + 2 + 10

\* a face row with one column too many
FACE_FEATURE_DIM_long == NUM_SURFACE_TYPES + 1 + 2 + 2 + 4 + 15

FACE_FEATURE_DIM == NUM_SURFACE_TYPES + 1 + 2 + 2 + 4 + 14

(***************************************************************************)
(* Small helpers.                                                          *)
(***************************************************************************)
\* Python's None, and a present value x of an Optional field
None == <<>>

Some(x) == <<x>>

RECURSIVE Flatten(_)
\* concatenation of a sequence of sequences
Flatten(ss) == IF ss = <<>> THEN <<>> ELSE Head(ss) \o Flatten(Tail(ss))

\* all sequences over S of length 0..n
SeqsUpTo(S, n) == UNION {[1..k -> S] : k \in 0..n}

(***************************************************************************)
(* The geometry kernel (oracle).  TopAbs_Orientation: FORWARD = 0,         *)
(* REVERSED = 1, INTERNAL = 2, EXTERNAL = 3.                               *)
(***************************************************************************)
TopAbs_FORWARD == 0

TopAbs_REVERSED == 1

TopAbs_INTERNAL == 2

TopAbs_EXTERNAL == 3

\* orientation of a sub-shape seen through a parent of orientation o1
Compose(o1, o2) ==
  CASE o1 = TopAbs_FORWARD  -> o2
    [] o1 = TopAbs_REVERSED -> IF o2 = TopAbs_FORWARD THEN TopAbs_REVERSED
                               ELSE IF o2 = TopAbs_REVERSED THEN TopAbs_FORWARD
                               ELSE o2
    [] OTHER                -> o1

\* an occurrence (TopoDS_Shape) of the entity t with orientation o
Occ(t, o) == [t |-> t, ori |-> o]

\* the occurrences of sub-shapes of the given kind met by a TopExp_Explorer
\* on the occurrence s, in exploration order, orientations cumulated
RECURSIVE Explore(_, _)
Explore(s, kind) ==
  IF s.t.kind = kind THEN <<s>>
  ELSE Flatten([k \in 1..Len(s.t.subs) |->
                 Explore(Occ(s.t.subs[k].t, Compose(s.ori, s.t.subs[k].ori)), kind)])

\* TopoDS_Shape.HashCode(2147483647): the bounded hash code of the entity,
\* the same for every occurrence of it
HashCode(s) == s.t.hash

\* TopoDS_Shape.IsSame: same entity, whatever the orientation
IsSame(a, b) == a.t.kind = b.t.kind /\ a.t.id = b.t.id

\* the entities of the kernel: kind, identity, hash code, sub-shape
\* occurrences and analytic geometry
Vertex(id, hash, p) ==
  [kind |-> "VERTEX", id |-> id, hash |-> hash, subs |-> <<>>, geom |-> p]

Edge(id, hash, curve, verts) ==
  [kind |-> "EDGE", id |-> id, hash |-> hash, subs |-> verts, geom |-> curve]

Face(id, hash, surf, edges) ==
  [kind |-> "FACE", id |-> id, hash |-> hash, subs |-> edges, geom |-> surf]

Compound(kids) ==
  Occ([kind |-> "COMPOUND", id |-> 0, hash |-> 0, subs |-> kids, geom |-> <<>>],
      TopAbs_FORWARD)

(***************************************************************************)
(* Kernel curves and surfaces: what BRepAdaptor_Curve / BRepAdaptor_Surface *)
(* answer.  code is the GeomAbs type code.                                 *)
(***************************************************************************)
BaseCurve ==
  [code |-> 0, first |-> 0, last |-> 1, closed |-> FALSE,
   dir |-> <<0, 0, 0>>, loc |-> <<0, 0, 0>>, axis |-> <<0, 0, 0>>,
   radius |-> 0, minor |-> 0, degree |-> 0, knots |-> <<>>, mults |-> <<>>,
   poles |-> <<>>, weights |-> <<>>, rational |-> FALSE]

KLine(d) == [BaseCurve EXCEPT !.code = 0, !.dir = d, !.last = 2]

KCircle(c, a, r) ==
  [BaseCurve EXCEPT !.code = 1, !.loc = c, !.axis = a, !.radius = r,
                    !.closed = TRUE, !.last = 6]

KEllipse(c, a, r, m) ==
  [BaseCurve EXCEPT !.code = 2, !.loc = c, !.axis = a, !.radius = r,
                    !.minor = m, !.closed = TRUE, !.last = 6]

KBezier(deg, poles, weights, rational) ==
  [BaseCurve EXCEPT !.code = 5, !.degree = deg, !.poles = poles,
                    !.weights = weights, !.rational = rational]

KBSpline(deg, knots, mults, poles, weights, rational) ==
  [BaseCurve EXCEPT !.code = 6, !.degree = deg, !.knots = knots,
                    !.mults = mults, !.poles = poles, !.weights = weights,
                    !.rational = rational]

\* a curve of a type with no dedicated parameters (hyperbola, parabola,
\* offset, other, or a code outside the GeomAbs enumeration)
KGeneric(code, first, last) ==
  [BaseCurve EXCEPT !.code = code, !.first = first, !.last = last,
                    !.loc = <<5, 5, 5>>, !.radius = 5]

BaseSurface ==
  [code |-> 0, u1 |-> 0, u2 |-> 1, v1 |-> 0, v2 |-> 1,
   uclosed |-> FALSE, vclosed |-> FALSE,
   dir |-> <<0, 0, 0>>, loc |-> <<0, 0, 0>>, radius |-> 0, minor |-> 0,
   semi |-> 0, udeg |-> 0, vdeg |-> 0,
   uknots |-> <<>>, umults |-> <<>>, vknots |-> <<>>, vmults |-> <<>>,
   poles |-> <<>>, weights |-> <<>>, urational |-> FALSE, vrational |-> FALSE]

KPlane(n, o) == [BaseSurface EXCEPT !.code = 0, !.dir = n, !.loc = o]

KCylinder(d, o, r) ==
  [BaseSurface EXCEPT !.code = 1, !.dir = d, !.loc = o, !.radius = r,
                      !.uclosed = TRUE, !.u2 = 6]

KCone(d, o, r, a) ==
  [BaseSurface EXCEPT !.code = 2, !.dir = d, !.loc = o, !.radius = r,
                      !.semi = a, !.uclosed = TRUE, !.u2 = 6]

KSphere(d, o, r) ==
  [BaseSurface EXCEPT !.code = 3, !.dir = d, !.loc = o, !.radius = r,
                      !.uclosed = TRUE, !.u2 = 6, !.v1 = -1]

KTorus(d, o, r, m) ==
  [BaseSurface EXCEPT !.code = 4, !.dir = d, !.loc = o, !.radius = r,
                      !.minor = m, !.uclosed = TRUE, !.vclosed = TRUE,
                      !.u2 = 6, !.v2 = 6]

\* poles and weights are grids: poles[ui][vi]
KBezierSurface(ud, vd, poles, weights, ur, vr) ==
  [BaseSurface EXCEPT !.code = 5, !.udeg = ud, !.vdeg = vd, !.poles = poles,
                      !.weights = weights, !.urational = ur, !.vrational = vr]

KBSplineSurface(ud, vd, uk, um, vk, vm, poles, weights, ur, vr) ==
  [BaseSurface EXCEPT !.code = 6, !.udeg = ud, !.vdeg = vd,
                      !.uknots = uk, !.umults = um, !.vknots = vk, !.vmults = vm,
                      !.poles = poles, !.weights = weights,
                      !.urational = ur, !.vrational = vr]

KGenericSurface(code, u2, v2) ==
  [BaseSurface EXCEPT !.code = code, !.u2 = u2, !.v2 = v2,
                      !.loc = <<5, 5, 5>>, !.radius = 5, !.minor = 5]

(***************************************************************************)
(* A cube: 8 vertices, 12 straight edges, 6 plane faces.  Corner n has the *)
(* coordinates given by the bits of n.                                     *)
(***************************************************************************)
CubeV(n) == Vertex(n + 1, n + 1, <<n % 2, (n \div 2) % 2, n \div 4>>)

CubeEdgeEnds ==
  << <<0, 1>>, <<2, 3>>, <<4, 5>>, <<6, 7>>,
     <<0, 2>>, <<1, 3>>, <<4, 6>>, <<5, 7>>,
     <<0, 4>>, <<1, 5>>, <<2, 6>>, <<3, 7>> >>

CubeE(k) ==
  LET a == CubeEdgeEnds[k][1]
      b == CubeEdgeEnds[k][2]
  IN  Edge(k, k,
           KLine(<<(b - a) % 2, ((b - a) \div 2) % 2, (b - a) \div 4>>),
           <<Occ(CubeV(a), TopAbs_FORWARD), Occ(CubeV(b), TopAbs_REVERSED)>>)

\* per face: the four edges of its boundary loop with their orientation
CubeFaceLoops ==
  << << <<1, 0>>, <<6, 0>>, <<2, 1>>, <<5, 1>> >>,
     << <<3, 0>>, <<8, 0>>, <<4, 1>>, <<7, 1>> >>,
     << <<1, 1>>, <<9, 0>>, <<3, 0>>, <<10, 1>> >>,
     << <<2, 0>>, <<12, 0>>, <<4, 1>>, <<11, 1>> >>,
     << <<5, 0>>, <<11, 0>>, <<7, 1>>, <<9, 1>> >>,
     << <<6, 1>>, <<10, 0>>, <<8, 0>>, <<12, 1>> >> >>

CubeF(k) ==
  Face(k, k,
       KPlane(<<IF k > 4 THEN 1 ELSE 0, IF k \in {3, 4} THEN 1 ELSE 0,
                IF k < 3 THEN 1 ELSE 0>>,
              <<IF k = 6 THEN 1 ELSE 0, IF k = 4 THEN 1 ELSE 0,
                IF k = 2 THEN 1 ELSE 0>>),
       [j \in 1..4 |-> Occ(CubeE(CubeFaceLoops[k][j][1]), CubeFaceLoops[k][j][2])])

\* cq.Workplane("XY").box(...): faces alternate in orientation
Cube ==
  Compound([k \in 1..6 |->
             Occ(CubeF(k), IF k % 2 = 1 THEN TopAbs_REVERSED ELSE TopAbs_FORWARD)])

(***************************************************************************)
(* Entities from which small compounds are assembled.                      *)
(***************************************************************************)
V21 == Vertex(21, 21, <<0, 0, 0>>)

V22 == Vertex(22, 22, <<1, 0, 0>>)

V23 == Vertex(23, 23, <<0, 1, 0>>)

\* same coordinates as V21, another entity
V25 == Vertex(25, 25, <<0, 0, 0>>)

\* another entity than V21 with the hash code of V21
V26 == Vertex(26, 21, <<2, 2, 2>>)

V27 == Vertex(27, 27, <<0, 0, 3>>)

V28 == Vertex(28, 28, <<0, 0, 4>>)

Ends(a, b) == <<Occ(a, TopAbs_FORWARD), Occ(b, TopAbs_REVERSED)>>

E31 == Edge(31, 31, KLine(<<1, 0, 0>>), Ends(V21, V22))

E32 == Edge(32, 32, KLine(<<-1, 1, 0>>), Ends(V22, V23))

E33 == Edge(33, 33, KLine(<<0, -1, 0>>), Ends(V23, V21))

E34 == Edge(34, 34, KLine(<<-1, 0, 0>>), Ends(V22, V25))

\* closed edges: the single vertex is met twice
E36 == Edge(36, 36, KCircle(<<0, 0, 3>>, <<0, 0, 1>>, 2), Ends(V27, V27))

E37 == Edge(37, 37, KCircle(<<0, 0, 4>>, <<0, 0, 1>>, 2), Ends(V28, V28))

\* the seam of the cylinder face
E38 == Edge(38, 38, KLine(<<0, 0, 1>>), Ends(V27, V28))

\* another entity than E31 with the hash code of E31
E39 == Edge(39, 31, KCircle(<<1, 1, 1>>, <<0, 1, 0>>, 3), Ends(V26, V22))

E40 ==
  Edge(40, 40,
       KBSpline(2, <<0, 1>>, <<3, 3>>,
                << <<0, 0, 0>>, <<1, 2, 0>>, <<1, 0, 0>> >>, <<1, 2, 1>>, TRUE),
       Ends(V21, V22))

E41 ==
  Edge(41, 41,
       KBezier(1, << <<0, 0, 0>>, <<0, 1, 0>> >>, <<3, 3>>, FALSE),
       Ends(V21, V23))

FA ==
  Face(51, 51, KPlane(<<0, 0, 1>>, <<0, 0, 0>>),
       <<Occ(E31, TopAbs_FORWARD), Occ(E32, TopAbs_FORWARD),
         Occ(E33, TopAbs_FORWARD)>>)

\* shares two edges with FA
FB ==
  Face(52, 52, KPlane(<<0, 0, -1>>, <<1, 0, 0>>),
       <<Occ(E32, TopAbs_REVERSED), Occ(E31, TopAbs_REVERSED),
         Occ(E34, TopAbs_FORWARD)>>)

\* lateral face of a cylinder: the seam bounds it twice
FC ==
  Face(53, 53, KCylinder(<<0, 0, 1>>, <<0, 0, 3>>, 2),
       <<Occ(E36, TopAbs_FORWARD), Occ(E38, TopAbs_FORWARD),
         Occ(E37, TopAbs_REVERSED), Occ(E38, TopAbs_REVERSED)>>)

\* its edge and one of its vertices have the hash codes of E31 and V21
FD ==
  Face(54, 54, KPlane(<<1, 0, 0>>, <<2, 2, 2>>),
       <<Occ(E39, TopAbs_FORWARD), Occ(E34, TopAbs_REVERSED)>>)

\* another entity than FA with the hash code of FA
FE ==
  Face(55, 51, KSphere(<<0, 0, 1>>, <<3, 3, 3>>, 4),
       <<Occ(E33, TopAbs_REVERSED)>>)

FF ==
  Face(56, 56,
       KBSplineSurface(1, 1, <<0, 1>>, <<2, 2>>, <<0, 2>>, <<2, 2>>,
                       << << <<0, 0, 0>>, <<0, 1, 0>> >>,
                          << <<1, 0, 0>>, <<1, 1, 1>> >> >>,
                       << <<1, 1>>, <<1, 2>> >>, FALSE, TRUE),
       <<Occ(E41, TopAbs_FORWARD), Occ(E31, TopAbs_REVERSED)>>)

\* free edges, one per kind of curve the kernel can answer
GeomEdge(k, curve) == Occ(Edge(60 + k, 60 + k, curve, Ends(V21, V22)), TopAbs_FORWARD)

\* faces without boundary, one per kind of surface the kernel can answer
GeomFace(k, surf) == Occ(Face(80 + k, 80 + k, surf, <<>>), TopAbs_FORWARD)

Pole2 == << <<0, 0, 0>>, <<1, 1, 0>> >>

Grid12 == << << <<0, 0, 0>>, <<0, 1, 0>> >> >>

Grid32 ==
  << << <<0, 0, 0>>, <<0, 1, 0>> >>, << <<1, 0, 0>>, <<1, 1, 0>> >>,
     << <<2, 0, 1>>, <<2, 1, 1>> >> >>

\* the children a compound of isolated entities is assembled from
GeomKids ==
  << GeomEdge(1, KLine(<<0, 1, 0>>)),
     GeomEdge(2, KCircle(<<1, 2, 3>>, <<0, 0, 1>>, 4)),
     GeomEdge(3, KEllipse(<<1, 2, 3>>, <<0, 0, 1>>, 4, 2)),
     GeomEdge(4, KEllipse(<<1, 2, 3>>, <<0, 0, 1>>, 4, 3)),
     GeomEdge(5, KGeneric(3, -2, 2)),
     GeomEdge(6, KGeneric(4, -1, 1)),
     GeomEdge(7, KBezier(1, Pole2, <<2, 3>>, FALSE)),
     GeomEdge(8, KBezier(1, Pole2, <<2, 3>>, TRUE)),
     GeomEdge(9, KBSpline(1, <<0, 1>>, <<2, 2>>, Pole2, <<1, 1>>, FALSE)),
     GeomEdge(10, KGeneric(7, 0, 1)),
     GeomEdge(11, KGeneric(8, 0, 3)),
     GeomEdge(12, KGeneric(9, 0, 2)),
     GeomFace(1, KPlane(<<0, 1, 0>>, <<1, 2, 3>>)),
     GeomFace(2, KCylinder(<<0, 0, 1>>, <<1, 2, 3>>, 4)),
     GeomFace(3, KCone(<<0, 0, 1>>, <<1, 2, 3>>, 4, 1)),
     GeomFace(4, KCone(<<0, 0, 1>>, <<1, 2, 3>>, 4, 2)),
     GeomFace(5, KSphere(<<0, 0, 1>>, <<1, 2, 3>>, 4)),
     GeomFace(6, KTorus(<<0, 0, 1>>, <<1, 2, 3>>, 4, 2)),
     GeomFace(7, KBezierSurface(0, 1, Grid12, << <<2, 3>> >>, FALSE, FALSE)),
     GeomFace(8, KBSplineSurface(2, 1, <<0, 1>>, <<3, 3>>, <<0, 1>>, <<2, 2>>,
                                 Grid32, << <<1, 1>>, <<2, 1>>, <<1, 3>> >>,
                                 TRUE, FALSE)),
     GeomFace(9, KGenericSurface(7, 6, 1)),
     GeomFace(10, KGenericSurface(8, 1, 2)),
     GeomFace(11, KGenericSurface(9, 2, 2)),
     GeomFace(12, KGenericSurface(10, 3, 1)),
     GeomFace(13, KGenericSurface(11, 1, 3)) >>

\* the children a small compound is assembled from
TopoKids ==
  << Occ(FA, TopAbs_FORWARD), Occ(FB, TopAbs_FORWARD), Occ(FC, TopAbs_REVERSED),
     Occ(FA, TopAbs_REVERSED), Occ(FD, TopAbs_FORWARD), Occ(FE, TopAbs_FORWARD),
     Occ(FF, TopAbs_FORWARD), Occ(E40, TopAbs_REVERSED), Occ(V25, TopAbs_FORWARD),
     Occ(FB, TopAbs_INTERNAL), Occ(E40, TopAbs_EXTERNAL) >>

(***************************************************************************)
(* More of the oracle: TopExp.MapShapesAndAncestors(shape, EDGE, FACE).    *)
(* The indexed map holds one entry per edge entity (keys compared with     *)
(* IsSame), in order of first insertion; every occurrence of the edge under *)
(* a face appends that face to the entry's list.                           *)
(***************************************************************************)
\* the occurrences of a sequence that are the first of their entity
FirstOfEntity(occs) ==
  LET numbered == [k \in 1..Len(occs) |-> [pos |-> k, occ |-> occs[k]]]
      firsts == SelectSeq(numbered,
                          LAMBDA r : \A j \in 1..(r.pos - 1) : ~IsSame(occs[j], r.occ))
  IN  [k \in 1..Len(firsts) |-> firsts[k].occ]

\* the (edge, face) occurrences under the faces of s, in exploration order
EdgesUnderFaces(s) ==
  LET F == Explore(s, "FACE")
  IN  Flatten([f \in 1..Len(F) |->
                [k \in 1..Len(Explore(F[f], "EDGE")) |->
                   [key |-> Explore(F[f], "EDGE")[k], anc |-> F[f]]]])

MapShapesAndAncestors(s) ==
  LET under == EdgesUnderFaces(s)
      keys == FirstOfEntity([k \in 1..Len(under) |-> under[k].key]
                            \o Explore(s, "EDGE"))
  IN  [i \in 1..Len(keys) |->
        [key |-> keys[i],
         list |-> LET mine == SelectSeq(under, LAMBDA r : IsSame(r.key, keys[i]))
                  IN  [k \in 1..Len(mine) |-> mine[k].anc]]]

(***************************************************************************)
(* topology.py                                                             *)
(***************************************************************************)
_shape_hash(s) == HashCode(s)

\* d[k] = v on a dict
DictSet(d, k, v) == [x \in DOMAIN d \cup {k} |-> IF x = k THEN v ELSE d[x]]

EmptyDict == [x \in {} |-> 0]

\* Register without the membership test: every occurrence is appended
Register_always(map, list, s) ==
  [map |-> DictSet(map, _shape_hash(s), Len(list)), list |-> Append(list, s)]

\* Register numbering from 1
Register_from1(map, list, s) ==
  LET h == _shape_hash(s)
  IN  IF h \notin DOMAIN map
      THEN [map |-> DictSet(map, h, Len(list) + 1), list |-> Append(list, s)]
      ELSE [map |-> map, list |-> list]

\* a registration in which a later occurrence takes the place of the first
Register_replace(map, list, s) ==
  IF _shape_hash(s) \in DOMAIN map
  THEN [map |-> map, list |-> [list EXCEPT ![map[_shape_hash(s)] + 1] = s]]
  ELSE [map |-> DictSet(map, _shape_hash(s), Len(list)), list |-> Append(list, s)]

\* one iteration of an extraction loop: the entity is registered under the
\* next index unless its hash is already a key of the map
Register(map, list, s) ==
  LET h == _shape_hash(s)
  IN  IF h \notin DOMAIN map
      THEN [map |-> DictSet(map, h, Len(list)), list |-> Append(list, s)]
      ELSE [map |-> map, list |-> list]

\* BoundsPairs keeping one pair per sub-shape index
BoundsPairs_norepeat(s, kind, map, idx) ==
  LET subs == Explore(s, kind)
      known == SelectSeq(subs, LAMBDA x : _shape_hash(x) \in DOMAIN map)
      first == {k \in 1..Len(known) :
                  \A j \in 1..(k - 1) : _shape_hash(known[j]) /= _shape_hash(known[k])}
      pick[k \in 0..Len(known)] ==
        IF k = 0 THEN <<>>
        ELSE IF k \in first
             THEN Append(pick[k - 1], <<map[_shape_hash(known[k])], idx>>)
             ELSE pick[k - 1]
  IN  pick[Len(known)]

\* BoundsPairs with the owner numbered from 1
BoundsPairs_from1(s, kind, map, idx) ==
  LET subs == Explore(s, kind)
      known == SelectSeq(subs, LAMBDA x : _shape_hash(x) \in DOMAIN map)
  IN  [k \in 1..Len(known) |-> <<map[_shape_hash(known[k])], idx + 1>>]

\* the pairs (index of sub-shape, idx) for the sub-shapes of the given kind
\* of s whose hash is a key of the map, in exploration order
BoundsPairs(s, kind, map, idx) ==
  LET subs == Explore(s, kind)
      known == SelectSeq(subs, LAMBDA x : _shape_hash(x) \in DOMAIN map)
  IN  [k \in 1..Len(known) |-> <<map[_shape_hash(known[k])], idx>>]

\* AdjacentFaceIndices giving positions in the ancestor list
AdjacentFaceIndices_position(face_list, map) ==
  LET known == SelectSeq(face_list, LAMBDA x : _shape_hash(x) \in DOMAIN map)
  IN  [k \in 1..Len(known) |-> k - 1]

\* the indices of the faces of an ancestor list that are registered
AdjacentFaceIndices(face_list, map) ==
  LET known == SelectSeq(face_list, LAMBDA x : _shape_hash(x) \in DOMAIN map)
  IN  [k \in 1..Len(known) |-> map[_shape_hash(known[k])]]

\* whether the pair (f1, f2) is added to the adjacency
NewPair(f1, f2, adj) == <<f1, f2>> \notin adj /\ <<f2, f1>> \notin adj

\* PairRelations without the reverse direction
PairRelations_oneway(f1, f2) == << <<f1, f2>> >>

\* the two relations appended for a new pair
PairRelations(f1, f2) == << <<f1, f2>>, <<f2, f1>> >>

(***************************************************************************)
(* geometry.py                                                             *)
(***************************************************************************)
\* d.get(k, default) on a dict
\* a lookup that answers a missing key with the entry of key 1
DictGet_one(d, k, default) == IF k \in DOMAIN d THEN d[k] ELSE d[1]

DictGet(d, k, default) == IF k \in DOMAIN d THEN d[k] ELSE default

\* keyed by the GeomAbs_CurveType code
CURVE_TYPE_MAP ==
  (0 :> CurveType_LINE) @@ (1 :> CurveType_CIRCLE) @@ (2 :> CurveType_ELLIPSE) @@
  (3 :> CurveType_HYPERBOLA) @@ (4 :> CurveType_PARABOLA) @@
  (5 :> CurveType_BEZIER) @@ (6 :> CurveType_BSPLINE) @@
  (7 :> CurveType_OFFSET) @@ (8 :> CurveType_OTHER)

\* keyed by the GeomAbs_SurfaceType code
SURFACE_TYPE_MAP ==
  (0 :> SurfaceType_PLANE) @@ (1 :> SurfaceType_CYLINDER) @@
  (2 :> SurfaceType_CONE) @@ (3 :> SurfaceType_SPHERE) @@
  (4 :> SurfaceType_TORUS) @@ (5 :> SurfaceType_BEZIER) @@
  (6 :> SurfaceType_BSPLINE) @@ (7 :> SurfaceType_REVOLUTION) @@
  (8 :> SurfaceType_EXTRUSION) @@ (9 :> SurfaceType_OFFSET) @@
  (10 :> SurfaceType_OTHER)

ControlPoint(p, weight, index) ==
  [x |-> p[1], y |-> p[2], z |-> p[3], weight |-> weight, index |-> index]

extract_vertex_geometry(vertex) ==
  [x |-> vertex.t.geom[1], y |-> vertex.t.geom[2], z |-> vertex.t.geom[3]]

\* the control points of a curve tagged with the kernel's own numbering
CurvePoles_kernel(c) ==
  [i \in 1..Len(c.poles) |->
     ControlPoint(c.poles[i], IF c.rational THEN c.weights[i] ELSE 1, <<i>>)]

\* the control points of a curve: pole i of the kernel gets index (i - 1,)
CurvePoles(c) ==
  [i \in 1..Len(c.poles) |->
     ControlPoint(c.poles[i], IF c.rational THEN c.weights[i] ELSE 1, <<i - 1>>)]

extract_edge_geometry(edge) ==
  LET c == edge.t.geom
      curve_type == DictGet(CURVE_TYPE_MAP, c.code, CurveType_OTHER)
      geom == [curve_type |-> curve_type,
               orientation |-> IF edge.ori = 0 THEN 1 ELSE -1,
               degree |-> 1,
               is_closed |-> c.closed,
               t_min |-> c.first,
               t_max |-> c.last,
               line_direction |-> None, center |-> None, axis |-> None,
               radius |-> None, minor_radius |-> None,
               knots |-> None, multiplicities |-> None, control_points |-> None]
  IN  CASE curve_type = CurveType_LINE ->
             [geom EXCEPT !.degree = 1, !.line_direction = Some(c.dir)]
        [] curve_type = CurveType_CIRCLE ->
             [geom EXCEPT !.degree = 2, !.center = Some(c.loc),
                          !.axis = Some(c.axis), !.radius = Some(c.radius)]
        [] curve_type = CurveType_ELLIPSE ->
             [geom EXCEPT !.degree = 2, !.center = Some(c.loc),
                          !.axis = Some(c.axis), !.radius = Some(c.radius),
                          !.minor_radius = Some(c.minor)]
        [] curve_type = CurveType_BSPLINE ->
             [geom EXCEPT !.degree = c.degree, !.knots = Some(c.knots),
                          !.multiplicities = Some(c.mults),
                          !.control_points = Some(CurvePoles(c))]
        [] curve_type = CurveType_BEZIER ->
             [geom EXCEPT !.degree = c.degree,
                          !.control_points = Some(CurvePoles(c))]
        [] OTHER -> geom

\* the control points of a surface with the grid flattened column by column
SurfacePoles_colmajor(s) ==
  Flatten([vi \in 1..Len(s.poles[1]) |->
            [ui \in 1..Len(s.poles) |->
               ControlPoint(s.poles[ui][vi],
                            IF s.urational \/ s.vrational
                            THEN s.weights[ui][vi] ELSE 1,
                            <<ui - 1, vi - 1>>)]])

\* the control points of a surface: the grid is flattened row-major over
\* (u, v) and pole (ui, vi) of the kernel gets index (ui - 1, vi - 1)
SurfacePoles(s) ==
  Flatten([ui \in 1..Len(s.poles) |->
            [vi \in 1..Len(s.poles[ui]) |->
               ControlPoint(s.poles[ui][vi],
                            IF s.urational \/ s.vrational
                            THEN s.weights[ui][vi] ELSE 1,
                            <<ui - 1, vi - 1>>)]])

extract_face_geometry(face) ==
  LET s == face.t.geom
      surface_type == DictGet(SURFACE_TYPE_MAP, s.code, SurfaceType_OTHER)
      geom == [surface_type |-> surface_type,
               orientation |-> IF face.ori = 0 THEN 1 ELSE -1,
               u_degree |-> 1, v_degree |-> 1,
               is_u_closed |-> s.uclosed, is_v_closed |-> s.vclosed,
               u_min |-> s.u1, u_max |-> s.u2, v_min |-> s.v1, v_max |-> s.v2,
               plane_normal |-> None, plane_origin |-> None,
               axis_direction |-> None, axis_origin |-> None,
               radius |-> None, radius2 |-> None, half_angle |-> None,
               u_knots |-> None, v_knots |-> None,
               u_multiplicities |-> None, v_multiplicities |-> None,
               control_points |-> None]
  IN  CASE surface_type = SurfaceType_PLANE ->
             [geom EXCEPT !.u_degree = 1, !.v_degree = 1,
                          !.plane_normal = Some(s.dir),
                          !.plane_origin = Some(s.loc)]
        [] surface_type = SurfaceType_CYLINDER ->
             [geom EXCEPT !.u_degree = 2, !.v_degree = 1,
                          !.axis_direction = Some(s.dir),
                          !.axis_origin = Some(s.loc),
                          !.radius = Some(s.radius)]
        [] surface_type = SurfaceType_CONE ->
             [geom EXCEPT !.u_degree = 2, !.v_degree = 1,
                          !.axis_direction = Some(s.dir),
                          !.axis_origin = Some(s.loc),
                          !.radius = Some(s.radius),
                          !.half_angle = Some(s.semi)]
        [] surface_type = SurfaceType_SPHERE ->
             [geom EXCEPT !.u_degree = 2, !.v_degree = 2,
                          !.axis_direction = Some(s.dir),
                          !.axis_origin = Some(s.loc),
                          !.radius = Some(s.radius)]
        [] surface_type = SurfaceType_TORUS ->
             [geom EXCEPT !.u_degree = 2, !.v_degree = 2,
                          !.axis_direction = Some(s.dir),
                          !.axis_origin = Some(s.loc),
                          !.radius = Some(s.radius),
                          !.radius2 = Some(s.minor)]
        [] surface_type = SurfaceType_BSPLINE ->
             [geom EXCEPT !.u_degree = s.udeg, !.v_degree = s.vdeg,
                          !.u_knots = Some(s.uknots),
                          !.u_multiplicities = Some(s.umults),
                          !.v_knots = Some(s.vknots),
                          !.v_multiplicities = Some(s.vmults),
                          !.control_points = Some(SurfacePoles(s))]
        [] surface_type = SurfaceType_BEZIER ->
             [geom EXCEPT !.u_degree = s.udeg, !.v_degree = s.vdeg,
                          !.control_points = Some(SurfacePoles(s))]
        [] OTHER -> geom

(***************************************************************************)
(* features.py.  A tensor is its shape and its rows; a row of a feature    *)
(* matrix is a function of the column number 0..width-1.                   *)
(***************************************************************************)
\* torch.empty(shape) with no element
EmptyTensor(shp) == [shape |-> shp, rows |-> [k \in 1..shp[1] |-> <<>>]]

\* one row of torch.zeros((n, width))
ZeroRow(width) == [c \in 0..(width - 1) |-> 0]

\* features[i, col] = val for every <<col, val>> of the list, in order: a
\* column holds the value last assigned to it
Assign(row, writes) ==
  [c \in DOMAIN row |->
     LET mine == {k \in 1..Len(writes) : writes[k][1] = c}
     IN  IF mine = {} THEN row[c]
         ELSE writes[CHOOSE k \in mine : \A j \in mine : j <= k][2]]

\* a slice that starts one column too far
Slice3_shifted(offset, opt) ==
  IF opt /= None
  THEN [k \in 1..3 |-> <<offset + k, opt[1][k]>>]
  ELSE <<>>

\* features[i, offset:offset + 3] = torch.tensor(t) when t is not None
Slice3(offset, opt) ==
  IF opt /= None
  THEN [k \in 1..3 |-> <<offset + k - 1, opt[1][k]>>]
  ELSE <<>>

\* features[i, offset] = v when v is not None
Scalar(offset, opt) == IF opt /= None THEN << <<offset, opt[1]>> >> ELSE <<>>

Flag(b) == IF b THEN 1 ELSE 0

build_vertex_features(geometries) ==
  IF geometries = <<>> THEN EmptyTensor(<<0, VERTEX_FEATURE_DIM>>)
  ELSE [shape |-> <<Len(geometries), VERTEX_FEATURE_DIM>>,
        rows |-> [i \in 1..Len(geometries) |->
                   Assign(ZeroRow(VERTEX_FEATURE_DIM),
                          << <<0, geometries[i].x>>, <<1, geometries[i].y>>,
                             <<2, geometries[i].z>> >>)]]

\* the type flag set one column too far
EdgeWrites_shifted(geom) ==
  << <<(geom.curve_type + 1) % NUM_CURVE_TYPES, 1>>,
     <<NUM_CURVE_TYPES, geom.orientation>>,
     <<NUM_CURVE_TYPES + 1, geom.degree>>,
     <<NUM_CURVE_TYPES + 2, Flag(geom.is_closed)>>,
     <<NUM_CURVE_TYPES + 3, geom.t_min>>,
     <<NUM_CURVE_TYPES + 4, geom.t_max>> >>
  \o Slice3(NUM_CURVE_TYPES + 5, geom.line_direction)
  \o Slice3(NUM_CURVE_TYPES + 8, geom.center)
  \o Slice3(NUM_CURVE_TYPES + 11, geom.axis)
  \o Scalar(NUM_CURVE_TYPES + 14, geom.radius)

\* the assignments build_edge_features makes to the row of geom, in order
EdgeWrites(geom) ==
  << <<geom.curve_type, 1>>,
     <<NUM_CURVE_TYPES, geom.orientation>>,
     <<NUM_CURVE_TYPES + 1, geom.degree>>,
     <<NUM_CURVE_TYPES + 2, Flag(geom.is_closed)>>,
     <<NUM_CURVE_TYPES + 3, geom.t_min>>,
     <<NUM_CURVE_TYPES + 4, geom.t_max>> >>
  \o Slice3(NUM_CURVE_TYPES + 5, geom.line_direction)
  \o Slice3(NUM_CURVE_TYPES + 8, geom.center)
  \o Slice3(NUM_CURVE_TYPES + 11, geom.axis)
  \o Scalar(NUM_CURVE_TYPES + 14, geom.radius)

\* a row that starts from the row of the entity before it, not from zeros
build_edge_features_carry(geometries) ==
  IF geometries = <<>> THEN EmptyTensor(<<0, EDGE_FEATURE_DIM>>)
  ELSE [shape |-> <<Len(geometries), EDGE_FEATURE_DIM>>,
        rows |-> [i \in 1..Len(geometries) |->
                   Assign(IF i = 1 THEN ZeroRow(EDGE_FEATURE_DIM)
                          ELSE Assign(ZeroRow(EDGE_FEATURE_DIM),
                                      EdgeWrites(geometries[i - 1])),
                          EdgeWrites(geometries[i]))]]

build_edge_features(geometries) ==
  IF geometries = <<>> THEN EmptyTensor(<<0, EDGE_FEATURE_DIM>>)
  ELSE [shape |-> <<Len(geometries), EDGE_FEATURE_DIM>>,
        rows |-> [i \in 1..Len(geometries) |->
                   Assign(ZeroRow(EDGE_FEATURE_DIM), EdgeWrites(geometries[i]))]]

\* the assignments build_face_features makes to the row of geom, in order
FaceWrites(geom) ==
  << <<geom.surface_type, 1>>,
     <<NUM_SURFACE_TYPES, geom.orientation>>,
     <<NUM_SURFACE_TYPES + 1, geom.u_degree>>,
     <<NUM_SURFACE_TYPES + 2, geom.v_degree>>,
     <<NUM_SURFACE_TYPES + 3, Flag(geom.is_u_closed)>>,
     <<NUM_SURFACE_TYPES + 4, Flag(geom.is_v_closed)>>,
     <<NUM_SURFACE_TYPES + 5, geom.u_min>>,
     <<NUM_SURFACE_TYPES + 6, geom.u_max>>,
     <<NUM_SURFACE_TYPES + 7, geom.v_min>>,
     <<NUM_SURFACE_TYPES + 8, geom.v_max>> >>
  \o Slice3(NUM_SURFACE_TYPES + 9, geom.plane_normal)
  \o Slice3(NUM_SURFACE_TYPES + 12, geom.plane_origin)
  \o Slice3(NUM_SURFACE_TYPES + 15, geom.axis_direction)
  \o Slice3(NUM_SURFACE_TYPES + 18, geom.axis_origin)
  \o Scalar(NUM_SURFACE_TYPES + 21, geom.radius)
  \o Scalar(NUM_SURFACE_TYPES + 22, geom.radius2)

build_face_features(geometries) ==
  IF geometries = <<>> THEN EmptyTensor(<<0, FACE_FEATURE_DIM>>)
  ELSE [shape |-> <<Len(geometries), FACE_FEATURE_DIM>>,
        rows |-> [i \in 1..Len(geometries) |->
                   Assign(ZeroRow(FACE_FEATURE_DIM), FaceWrites(geometries[i]))]]

build_control_point_features(cps) ==
  IF cps = <<>> THEN EmptyTensor(<<0, CONTROL_POINT_FEATURE_DIM>>)
  ELSE [shape |-> <<Len(cps), CONTROL_POINT_FEATURE_DIM>>,
        rows |-> [i \in 1..Len(cps) |->
                   Assign(ZeroRow(CONTROL_POINT_FEATURE_DIM),
                          << <<0, cps[i].x>>, <<1, cps[i].y>>, <<2, cps[i].z>>,
                             <<3, cps[i].weight>> >>)]]

\* the pairs as a tensor with no case for the empty list: transposing the
\* tensor of an empty list leaves the shape (0,)
build_edge_index_noguard(pairs) ==
  IF pairs = <<>> THEN [shape |-> <<0>>, rows |-> <<>>]
  ELSE [shape |-> <<2, Len(pairs)>>,
        rows |-> << [k \in 1..Len(pairs) |-> pairs[k][1]],
                    [k \in 1..Len(pairs) |-> pairs[k][2]] >>]

\* the pairs as a tensor of shape (2, n): the row of sources, the row of
\* targets
build_edge_index(pairs) ==
  IF pairs = <<>> THEN EmptyTensor(<<2, 0>>)
  ELSE [shape |-> <<2, Len(pairs)>>,
        rows |-> << [k \in 1..Len(pairs) |-> pairs[k][1]],
                    [k \in 1..Len(pairs) |-> pairs[k][2]] >>]

(***************************************************************************)
(* converter.py                                                            *)
(***************************************************************************)
\* Python truth value of an Optional[List]: None and [] are false
Truthy(opt) == opt /= None /\ opt[1] /= <<>>

\* a list stored without its first element
OrEmpty_tail(opt) == IF Truthy(opt) THEN Tail(opt[1]) ELSE <<>>

\* x if x else []
OrEmpty(opt) == IF Truthy(opt) THEN opt[1] ELSE <<>>

\* AppendControlPoints numbering the control points from 1
AppendControlPoints_from1(cps, rel, attr, geom, idx) ==
  IF Truthy(geom.control_points)
  THEN LET own == geom.control_points[1]
       IN  [control_points |-> cps \o own,
            rel |-> rel \o [k \in 1..Len(own) |-> <<Len(cps) + k, idx>>],
            attr |-> attr \o [k \in 1..Len(own) |-> own[k].index]]
  ELSE [control_points |-> cps, rel |-> rel, attr |-> attr]

\* AppendControlPoints numbering the control points of every entity from 0
AppendControlPoints_local(cps, rel, attr, geom, idx) ==
  IF Truthy(geom.control_points)
  THEN LET own == geom.control_points[1]
       IN  [control_points |-> cps \o own,
            rel |-> rel \o [k \in 1..Len(own) |-> <<k - 1, idx>>],
            attr |-> attr \o [k \in 1..Len(own) |-> own[k].index]]
  ELSE [control_points |-> cps, rel |-> rel, attr |-> attr]

\* converter.py 79-84 and 88-93: the control points of one entity are
\* appended to the global list and related to the entity
AppendControlPoints(cps, rel, attr, geom, idx) ==
  IF Truthy(geom.control_points)
  THEN LET own == geom.control_points[1]
       IN  [control_points |-> cps \o own,
            rel |-> rel \o [k \in 1..Len(own) |-> <<Len(cps) + k - 1, idx>>],
            attr |-> attr \o [k \in 1..Len(own) |-> own[k].index]]
  ELSE [control_points |-> cps, rel |-> rel, attr |-> attr]

\* converter.py 137-143
EdgeAttr(attr) ==
  IF attr /= <<>>
  THEN [shape |-> <<Len(attr), 1>>, rows |-> [k \in 1..Len(attr) |-> <<attr[k][1]>>]]
  ELSE EmptyTensor(<<0, 1>>)

\* converter.py 145-151
FaceAttr(attr) ==
  IF attr /= <<>>
  THEN [shape |-> <<Len(attr), 2>>, rows |-> attr]
  ELSE EmptyTensor(<<0, 2>>)

VARIABLES
  arg,                    \* the object cadquery_to_pyg is called with
  error,                  \* the exception the call raised, if any
  oracle_called,          \* the call has queried the geometry kernel
  calls,                  \* number of calls made so far, this one included
  results,                \* the outcomes of the calls that have returned
  raised,                 \* the failures the kernel has raised, in order
  package,                \* the import of the package cq2pyg by a client
  shape,                  \* occ_shape, the TopoDS_Shape being converted
  pc,                     \* the statement cadquery_to_pyg is at
  cursor,                 \* number of the current loop's next iteration
  vertex_map, edge_map, face_map,                 \* TopologyData
  vertices, edges, faces,
  vertex_to_edge, edge_to_face, face_to_face,
  edge_face_map, adjacency_set,                   \* locals of extract_topology
  adjacent_face_indices, i1, i2,
  vertex_geoms, edge_geoms, face_geoms,           \* locals of cadquery_to_pyg
  control_points, cp_to_edge, cp_to_edge_attr, cp_to_face, cp_to_face_attr,
  data                    \* the HeteroData returned

reg_vars == <<vertex_map, edge_map, face_map, vertices, edges, faces>>

rel_vars == <<vertex_to_edge, edge_to_face, face_to_face>>

adj_vars == <<edge_face_map, adjacency_set, adjacent_face_indices, i1, i2>>

geom_vars == <<vertex_geoms, edge_geoms, face_geoms>>

cp_vars ==
  <<control_points, cp_to_edge, cp_to_edge_attr, cp_to_face, cp_to_face_attr>>

call_vars == <<arg, error, calls, results, raised, package>>

vars ==
  <<call_vars, oracle_called, shape, pc, cursor, reg_vars, rel_vars, adj_vars,
    geom_vars, cp_vars, data>>

\* the compounds of at most n children taken from the list kids
Compounds(kids, n) ==
  {Compound([k \in 1..Len(ks) |-> kids[ks[k]]]) : ks \in SeqsUpTo(1..Len(kids), n)}

\* the cube with its faces listed in the opposite order, all forward
CubeReversed == Compound([k \in 1..6 |-> Occ(CubeF(7 - k), TopAbs_FORWARD)])

\* the shapes converted: small compounds, compounds of isolated entities,
\* two cubes
Shapes ==
  Compounds(TopoKids, MaxKids) \cup Compounds(GeomKids, MaxGeomKids)
    \cup {Cube, CubeReversed}

\* a Python object: its class, the classes isinstance accepts for it, and
\* the TopoDS_Shape it gives access to, if any
Object(class, mro, wrapped) == [class |-> class, mro |-> mro, wrapped |-> wrapped]

\* a cq.Workplane whose val() is a cq.Shape wrapping s
Workplane(s) == Object("Workplane", {"Workplane", "object"}, Some(s))

\* a cq.Solid or cq.Compound wrapping s: subclasses of cq.Shape
CqShape(s) ==
  Object(IF s = Cube THEN "Solid" ELSE "Compound",
         {IF s = Cube THEN "Solid" ELSE "Compound", "Shape", "object"}, Some(s))

\* a raw TopoDS_Compound: a subclass of TopoDS_Shape
RawShape(s) ==
  Object("TopoDS_Compound", {"TopoDS_Compound", "TopoDS_Shape", "object"}, Some(s))

\* objects of other classes, some of them holding a shape all the same
Strangers ==
  {Object("str", {"str", "object"}, None),
   Object("NoneType", {"NoneType", "object"}, None),
   Object("list", {"list", "object"}, Some(Cube)),
   Object("Assembly", {"Assembly", "object"}, Some(Cube)),
   Object("gp_Pnt", {"gp_Pnt", "object"}, None)}

\* the arguments of the calls
Inputs ==
  {RawShape(s) : s \in Compounds(TopoKids, MaxKids)}
    \cup {CqShape(s) : s \in Compounds(GeomKids, MaxGeomKids)}
    \cup {Workplane(Cube), CqShape(Cube), RawShape(CubeReversed)}
    \cup Strangers

\* the arguments of the calls made one after the other
RepeatInputs ==
  {RawShape(Compound(<<TopoKids[1], TopoKids[2]>>)),
   Workplane(Compound(<<TopoKids[7], TopoKids[8]>>)),
   CqShape(Compound(<<TopoKids[3]>>)),
   Object("str", {"str", "object"}, None)}

\* a test passed by every object that holds a shape, whatever its class
isinstance_duck(obj, class) == obj.wrapped /= None

\* isinstance(obj, class)
isinstance(obj, class) == class \in obj.mro

\* occ_shape before it is bound: the null shape
NullShape == Compound(<<>>)

\* topology.py 21-33, 51: TopologyData() builds every field with its
\* default factory, whatever an earlier instance held
NewTopologyData_shared(old) == old

NewTopologyData(old) ==
  [vertex_map |-> EmptyDict, edge_map |-> EmptyDict, face_map |-> EmptyDict,
   vertices |-> <<>>, edges |-> <<>>, faces |-> <<>>,
   vertex_to_edge |-> <<>>, edge_to_face |-> <<>>, face_to_face |-> <<>>]

\* the locals of a call that has not run yet
Locals ==
  /\ cursor = 1
  /\ error = None
  /\ oracle_called = FALSE
  /\ shape = NullShape
  /\ vertex_map = EmptyDict /\ edge_map = EmptyDict /\ face_map = EmptyDict
  /\ vertices = <<>> /\ edges = <<>> /\ faces = <<>>
  /\ vertex_to_edge = <<>> /\ edge_to_face = <<>> /\ face_to_face = <<>>
  /\ edge_face_map = <<>> /\ adjacency_set = {}
  /\ adjacent_face_indices = <<>> /\ i1 = 0 /\ i2 = 0
  /\ vertex_geoms = <<>> /\ edge_geoms = <<>> /\ face_geoms = <<>>
  /\ control_points = <<>>
  /\ cp_to_edge = <<>> /\ cp_to_edge_attr = <<>>
  /\ cp_to_face = <<>> /\ cp_to_face_attr = <<>>
  /\ data = <<>>

\* the frame of a call that has not run yet
NewFrame == pc = "validate" /\ Locals

\* a client that asks the package for the names of request, before
\* __init__.py has run
Client(request) == [request |-> request, names |-> {}, stmt |-> 1, k |-> 1]

\* the first call, with one of the given arguments
Start(inputs) ==
  /\ arg \in inputs
  /\ calls = 1
  /\ results = <<>>
  /\ raised = <<>>
  /\ package = Client({})
  /\ NewFrame

Init == Start(Inputs)

InitRepeat == Start(RepeatInputs)

\* the number of iterations of the loop pc is at
LoopLen ==
  CASE pc = "vertices"       -> Len(Explore(shape, "VERTEX"))
    [] pc = "edges"          -> Len(Explore(shape, "EDGE"))
    [] pc = "faces"          -> Len(Explore(shape, "FACE"))
    [] pc = "vertex_to_edge" -> Len(edges)
    [] pc = "edge_to_face"   -> Len(faces)
    [] pc = "face_to_face"   -> Len(edge_face_map)
    [] pc = "cp_edges"       -> Len(edge_geoms)
    [] pc = "cp_faces"       -> Len(face_geoms)
    [] OTHER                 -> 0

\* the statement that follows the loop pc is at
AfterLoop ==
  CASE pc = "vertices"       -> "edges"
    [] pc = "edges"          -> "faces"
    [] pc = "faces"          -> "vertex_to_edge"
    [] pc = "vertex_to_edge" -> "edge_to_face"
    [] pc = "edge_to_face"   -> "ancestors"
    [] pc = "face_to_face"   -> "geometry"
    [] pc = "cp_edges"       -> "cp_faces"
    [] pc = "cp_faces"       -> "build"
    [] OTHER                 -> pc

\* the exception of converter.py 60, with the type it names
TypeError(obj) == Some([exception |-> "TypeError", got |-> obj.class])

\* converter.py 53-60: the argument is unwrapped, or rejected
Validate ==
  /\ pc = "validate"
  /\ IF isinstance(arg, "Workplane") \/ isinstance(arg, "Shape")
          \/ isinstance(arg, "TopoDS_Shape")
     THEN /\ shape' = arg.wrapped[1]
          /\ pc' = "vertices"
          /\ error' = error
     ELSE /\ error' = TypeError(arg)
          /\ pc' = "rejected"
          /\ shape' = shape
  /\ UNCHANGED <<arg, calls, results, raised, package, oracle_called, cursor,
                 reg_vars, rel_vars, adj_vars, geom_vars, cp_vars, data>>

\* what a call that has ended leaves to its caller
Outcome ==
  [arg |-> arg, error |-> error, data |-> data,
   vertex_map |-> vertex_map, edge_map |-> edge_map, face_map |-> face_map]

\* the call has ended, and cadquery_to_pyg is called again with a new frame
Call ==
  /\ pc \in {"done", "rejected"}
  /\ calls < MaxCalls
  /\ arg' \in RepeatInputs
  /\ calls' = calls + 1
  /\ results' = Append(results, Outcome)
  /\ raised' = raised
  /\ package' = package
  /\ LET topo == NewTopologyData(
                   [vertex_map |-> vertex_map, edge_map |-> edge_map,
                    face_map |-> face_map, vertices |-> vertices,
                    edges |-> edges, faces |-> faces,
                    vertex_to_edge |-> vertex_to_edge,
                    edge_to_face |-> edge_to_face,
                    face_to_face |-> face_to_face])
     IN  /\ vertex_map' = topo.vertex_map
         /\ edge_map' = topo.edge_map
         /\ face_map' = topo.face_map
         /\ vertices' = topo.vertices
         /\ edges' = topo.edges
         /\ faces' = topo.faces
         /\ vertex_to_edge' = topo.vertex_to_edge
         /\ edge_to_face' = topo.edge_to_face
         /\ face_to_face' = topo.face_to_face
  /\ pc' = "validate"
  /\ cursor' = 1
  /\ error' = None
  /\ oracle_called' = FALSE
  /\ shape' = NullShape
  /\ edge_face_map' = <<>> /\ adjacency_set' = {}
  /\ adjacent_face_indices' = <<>> /\ i1' = 0 /\ i2' = 0
  /\ vertex_geoms' = <<>> /\ edge_geoms' = <<>> /\ face_geoms' = <<>>
  /\ control_points' = <<>>
  /\ cp_to_edge' = <<>> /\ cp_to_edge_attr' = <<>>
  /\ cp_to_face' = <<>> /\ cp_to_face_attr' = <<>>
  /\ data' = <<>>

\* topology.py 55-62: one vertex met by the explorer
ExtractVertex ==
  /\ pc = "vertices" /\ cursor <= LoopLen
  /\ LET r == Register(vertex_map, vertices, Explore(shape, "VERTEX")[cursor])
     IN  vertex_map' = r.map /\ vertices' = r.list
  /\ cursor' = cursor + 1
  /\ oracle_called' = TRUE
  /\ UNCHANGED <<call_vars, shape, pc, edge_map, face_map, edges, faces, rel_vars,
                 adj_vars, geom_vars, cp_vars, data>>

\* topology.py 66-73: one edge met by the explorer
ExtractEdge ==
  /\ pc = "edges" /\ cursor <= LoopLen
  /\ LET r == Register(edge_map, edges, Explore(shape, "EDGE")[cursor])
     IN  edge_map' = r.map /\ edges' = r.list
  /\ cursor' = cursor + 1
  /\ oracle_called' = TRUE
  /\ UNCHANGED <<call_vars, shape, pc, vertex_map, face_map, vertices, faces, rel_vars,
                 adj_vars, geom_vars, cp_vars, data>>

\* topology.py 77-84: one face met by the explorer
ExtractFace ==
  /\ pc = "faces" /\ cursor <= LoopLen
  /\ LET r == Register(face_map, faces, Explore(shape, "FACE")[cursor])
     IN  face_map' = r.map /\ faces' = r.list
  /\ cursor' = cursor + 1
  /\ oracle_called' = TRUE
  /\ UNCHANGED <<call_vars, shape, pc, vertex_map, edge_map, vertices, edges, rel_vars,
                 adj_vars, geom_vars, cp_vars, data>>

\* topology.py 87-96: the vertices of one registered edge
VertexBoundsEdge ==
  /\ pc = "vertex_to_edge" /\ cursor <= LoopLen
  /\ vertex_to_edge' =
       vertex_to_edge \o BoundsPairs(edges[cursor], "VERTEX", vertex_map, cursor - 1)
  /\ cursor' = cursor + 1
  /\ oracle_called' = TRUE
  /\ UNCHANGED <<call_vars, shape, pc, reg_vars, edge_to_face, face_to_face, adj_vars,
                 geom_vars, cp_vars, data>>

\* topology.py 99-108: the edges of one registered face
EdgeBoundsFace ==
  /\ pc = "edge_to_face" /\ cursor <= LoopLen
  /\ edge_to_face' =
       edge_to_face \o BoundsPairs(faces[cursor], "EDGE", edge_map, cursor - 1)
  /\ cursor' = cursor + 1
  /\ oracle_called' = TRUE
  /\ UNCHANGED <<call_vars, shape, pc, reg_vars, vertex_to_edge, face_to_face, adj_vars,
                 geom_vars, cp_vars, data>>

\* topology.py 112-115: the faces around every edge are asked of the kernel
MapAncestors ==
  /\ pc = "ancestors"
  /\ edge_face_map' = MapShapesAndAncestors(shape)
  /\ adjacency_set' = {}
  /\ pc' = "face_to_face"
  /\ cursor' = 1
  /\ oracle_called' = TRUE
  /\ UNCHANGED <<call_vars, shape, reg_vars, rel_vars, adjacent_face_indices, i1, i2,
                 geom_vars, cp_vars, data>>

\* topology.py 117-128: the registered faces around one edge of the map
AncestorFaces ==
  /\ pc = "face_to_face" /\ cursor <= LoopLen
  /\ adjacent_face_indices' =
       AdjacentFaceIndices(edge_face_map[cursor].list, face_map)
  /\ i1' = 0 /\ i2' = 1
  /\ pc' = "pairs"
  /\ oracle_called' = TRUE
  /\ UNCHANGED <<call_vars, shape, cursor, reg_vars, rel_vars, edge_face_map,
                 adjacency_set, geom_vars, cp_vars, data>>

\* topology.py 131-137: one pair of positions (i1, i2) of the list
AdjacencyPair ==
  /\ pc = "pairs" /\ i2 < Len(adjacent_face_indices)
  /\ LET f1 == adjacent_face_indices[i1 + 1]
         f2 == adjacent_face_indices[i2 + 1]
     IN  IF NewPair(f1, f2, adjacency_set)
         THEN /\ adjacency_set' = adjacency_set \cup {<<f1, f2>>}
              /\ face_to_face' = face_to_face \o PairRelations(f1, f2)
         ELSE UNCHANGED <<adjacency_set, face_to_face>>
  /\ IF i2 + 1 < Len(adjacent_face_indices)
     THEN i1' = i1 /\ i2' = i2 + 1
     ELSE i1' = i1 + 1 /\ i2' = i1 + 2
  /\ UNCHANGED <<call_vars, oracle_called, shape, pc, cursor, reg_vars, vertex_to_edge, edge_to_face,
                 edge_face_map, adjacent_face_indices, geom_vars, cp_vars, data>>

\* topology.py 131-132: the pairs of the list are exhausted
PairsDone ==
  /\ pc = "pairs" /\ i2 >= Len(adjacent_face_indices)
  /\ pc' = "face_to_face"
  /\ cursor' = cursor + 1
  /\ UNCHANGED <<call_vars, oracle_called, shape, reg_vars, rel_vars, adj_vars, geom_vars, cp_vars, data>>

\* converter.py 66-68: the descriptor of every registered entity
ExtractGeometry ==
  /\ pc = "geometry"
  /\ vertex_geoms' = [k \in 1..Len(vertices) |-> extract_vertex_geometry(vertices[k])]
  /\ edge_geoms' = [k \in 1..Len(edges) |-> extract_edge_geometry(edges[k])]
  /\ face_geoms' = [k \in 1..Len(faces) |-> extract_face_geometry(faces[k])]
  /\ pc' = "cp_edges"
  /\ cursor' = 1
  /\ oracle_called' = TRUE
  /\ UNCHANGED <<call_vars, shape, reg_vars, rel_vars, adj_vars, cp_vars, data>>

\* converter.py 78-84: the control points of one edge
EdgeControlPoints ==
  /\ pc = "cp_edges" /\ cursor <= LoopLen
  /\ LET r == AppendControlPoints(control_points, cp_to_edge, cp_to_edge_attr,
                                  edge_geoms[cursor], cursor - 1)
     IN  /\ control_points' = r.control_points
         /\ cp_to_edge' = r.rel
         /\ cp_to_edge_attr' = r.attr
  /\ cursor' = cursor + 1
  /\ UNCHANGED <<call_vars, oracle_called, shape, pc, reg_vars, rel_vars, adj_vars, geom_vars,
                 cp_to_face, cp_to_face_attr, data>>

\* converter.py 87-93: the control points of one face
FaceControlPoints ==
  /\ pc = "cp_faces" /\ cursor <= LoopLen
  /\ LET r == AppendControlPoints(control_points, cp_to_face, cp_to_face_attr,
                                  face_geoms[cursor], cursor - 1)
     IN  /\ control_points' = r.control_points
         /\ cp_to_face' = r.rel
         /\ cp_to_face_attr' = r.attr
  /\ cursor' = cursor + 1
  /\ UNCHANGED <<call_vars, oracle_called, shape, pc, reg_vars, rel_vars, adj_vars, geom_vars,
                 cp_to_edge, cp_to_edge_attr, data>>

\* converter.py 96-153: the graph is assembled and returned
BuildData ==
  /\ pc = "build"
  /\ data' =
       [vertex_x |-> build_vertex_features(vertex_geoms),
        edge_x |-> build_edge_features(edge_geoms),
        face_x |-> build_face_features(face_geoms),
        control_point_x |-> build_control_point_features(control_points),
        edge_knots |-> [k \in 1..Len(edge_geoms) |-> OrEmpty(edge_geoms[k].knots)],
        edge_multiplicities |->
          [k \in 1..Len(edge_geoms) |-> OrEmpty(edge_geoms[k].multiplicities)],
        face_u_knots |-> [k \in 1..Len(face_geoms) |-> OrEmpty(face_geoms[k].u_knots)],
        face_v_knots |-> [k \in 1..Len(face_geoms) |-> OrEmpty(face_geoms[k].v_knots)],
        face_u_multiplicities |->
          [k \in 1..Len(face_geoms) |-> OrEmpty(face_geoms[k].u_multiplicities)],
        face_v_multiplicities |->
          [k \in 1..Len(face_geoms) |-> OrEmpty(face_geoms[k].v_multiplicities)],
        vertex_bounds_edge |-> build_edge_index(vertex_to_edge),
        edge_bounds_face |-> build_edge_index(edge_to_face),
        face_adjacent_face |-> build_edge_index(face_to_face),
        cp_controls_edge |-> build_edge_index(cp_to_edge),
        cp_controls_face |-> build_edge_index(cp_to_face),
        cp_controls_edge_attr |-> EdgeAttr(cp_to_edge_attr),
        cp_controls_face_attr |-> FaceAttr(cp_to_face_attr)]
  /\ pc' = "done"
  /\ UNCHANGED <<call_vars, oracle_called, shape, cursor, reg_vars, rel_vars, adj_vars, geom_vars, cp_vars>>

\* a loop ends and the statement after it is reached
LoopDone ==
  /\ pc \in {"vertices", "edges", "faces", "vertex_to_edge", "edge_to_face",
             "face_to_face", "cp_edges", "cp_faces"}
  /\ cursor > LoopLen
  /\ pc' = AfterLoop
  /\ cursor' = 1
  /\ oracle_called' = (oracle_called \/ pc \notin {"cp_edges", "cp_faces"})
  /\ UNCHANGED <<call_vars, shape, reg_vars, rel_vars, adj_vars, geom_vars, cp_vars, data>>

Next ==
  \/ Validate
  \/ ExtractVertex
  \/ ExtractEdge
  \/ ExtractFace
  \/ VertexBoundsEdge
  \/ EdgeBoundsFace
  \/ MapAncestors
  \/ AncestorFaces
  \/ AdjacencyPair
  \/ PairsDone
  \/ ExtractGeometry
  \/ EdgeControlPoints
  \/ FaceControlPoints
  \/ BuildData
  \/ LoopDone

Spec == Init /\ [][Next]_vars

\* the statements of cadquery_to_pyg that query the kernel
KernelStatements ==
  {"vertices", "edges", "faces", "vertex_to_edge", "edge_to_face",
   "ancestors", "face_to_face", "geometry"}

\* the failures a query to the kernel can raise
OracleFailures == {"Standard_Failure", "Standard_NoSuchObject"}

\* the exception object of a kernel failure
KernelError(exc) == [exception |-> exc, got |-> "kernel"]

\* a handler that drops the failure and issues the query again
Propagate_retry(exc, at) == [pc |-> at, error |-> None]

\* no statement of the package catches an exception: the failure leaves
\* cadquery_to_pyg as it was raised
Propagate(exc, at) == [pc |-> "failed", error |-> Some(KernelError(exc))]

\* the sequences a loop that appends the elements of seq one by one can have
\* appended when it is left early
Prefixes(seq) == {SubSeq(seq, 1, k) : k \in 0..Len(seq)}

\* what the statement pc is at has written when one of its queries to the
\* kernel raises: a statement that makes no query has no such point
\*   topology.py 54-84: More, Current, the cast and HashCode come before the
\*     registration of the iteration, Next comes after it;
\*   topology.py 87-108: a pair is appended between two queries of the
\*     inner loop;
\*   topology.py 112-113: the map is filled by one query;
\*   topology.py 117-128: Extent is asked once, FindKey and FindFromIndex
\*     before the list is emptied on line 121, the cast and HashCode before
\*     each append;
\*   converter.py 66-68: each list is bound when its comprehension ends.
PartialWrites ==
  LET now == [vertex_map |-> vertex_map, vertices |-> vertices,
              edge_map |-> edge_map, edges |-> edges,
              face_map |-> face_map, faces |-> faces,
              vertex_to_edge |-> vertex_to_edge, edge_to_face |-> edge_to_face,
              adjacent_face_indices |-> adjacent_face_indices,
              vertex_geoms |-> vertex_geoms, edge_geoms |-> edge_geoms]
  IN  CASE pc = "vertices" ->
             {now} \cup
             IF cursor <= LoopLen
             THEN LET r == Register(vertex_map, vertices,
                                    Explore(shape, "VERTEX")[cursor])
                  IN  {[now EXCEPT !.vertex_map = r.map, !.vertices = r.list]}
             ELSE {}
        [] pc = "edges" ->
             {now} \cup
             IF cursor <= LoopLen
             THEN LET r == Register(edge_map, edges,
                                    Explore(shape, "EDGE")[cursor])
                  IN  {[now EXCEPT !.edge_map = r.map, !.edges = r.list]}
             ELSE {}
        [] pc = "faces" ->
             {now} \cup
             IF cursor <= LoopLen
             THEN LET r == Register(face_map, faces,
                                    Explore(shape, "FACE")[cursor])
                  IN  {[now EXCEPT !.face_map = r.map, !.faces = r.list]}
             ELSE {}
        [] pc = "vertex_to_edge" ->
             IF cursor <= LoopLen
             THEN {[now EXCEPT !.vertex_to_edge = @ \o done] :
                     done \in Prefixes(BoundsPairs(edges[cursor], "VERTEX",
                                                   vertex_map, cursor - 1))}
             ELSE {}
        [] pc = "edge_to_face" ->
             IF cursor <= LoopLen
             THEN {[now EXCEPT !.edge_to_face = @ \o done] :
                     done \in Prefixes(BoundsPairs(faces[cursor], "EDGE",
                                                   edge_map, cursor - 1))}
             ELSE {}
        [] pc = "ancestors" -> {now}
        [] pc = "face_to_face" ->
             (IF cursor = 1 \/ cursor <= LoopLen THEN {now} ELSE {}) \cup
             IF cursor <= LoopLen
             THEN {[now EXCEPT !.adjacent_face_indices = done] :
                     done \in Prefixes(AdjacentFaceIndices(
                                         edge_face_map[cursor].list, face_map))}
             ELSE {}
        [] pc = "geometry" ->
             (IF vertices /= <<>> THEN {now} ELSE {}) \cup
             (IF edges /= <<>>
              THEN {[now EXCEPT !.vertex_geoms =
                       [k \in 1..Len(vertices) |->
                          extract_vertex_geometry(vertices[k])]]}
              ELSE {}) \cup
             (IF faces /= <<>>
              THEN {[now EXCEPT !.vertex_geoms =
                       [k \in 1..Len(vertices) |->
                          extract_vertex_geometry(vertices[k])],
                                !.edge_geoms =
                       [k \in 1..Len(edges) |->
                          extract_edge_geometry(edges[k])]]}
              ELSE {})
        [] OTHER -> {}

\* topology.py 54-128, converter.py 66-68: a query to the kernel raises,
\* at the start of the statement or part of the way through it
OracleFails ==
  /\ pc \in KernelStatements
  /\ Len(raised) < MaxFaults
  /\ \E exc \in OracleFailures, w \in PartialWrites :
       /\ raised' = Append(raised, exc)
       /\ error' = Propagate(exc, pc).error
       /\ pc' = Propagate(exc, pc).pc
       /\ vertex_map' = w.vertex_map /\ vertices' = w.vertices
       /\ edge_map' = w.edge_map /\ edges' = w.edges
       /\ face_map' = w.face_map /\ faces' = w.faces
       /\ vertex_to_edge' = w.vertex_to_edge
       /\ edge_to_face' = w.edge_to_face
       /\ adjacent_face_indices' = w.adjacent_face_indices
       /\ vertex_geoms' = w.vertex_geoms
       /\ edge_geoms' = w.edge_geoms
  /\ oracle_called' = TRUE
  /\ UNCHANGED <<arg, calls, results, package, shape, cursor, face_to_face,
                 edge_face_map, adjacency_set, i1, i2, face_geoms, cp_vars,
                 data>>

\* a conversion during which the kernel may fail
NextFaulty == Next \/ OracleFails

SpecFaulty == InitRepeat /\ [][NextFaulty]_vars

(***************************************************************************)
(* __init__.py: the import of the package.                                 *)
(***************************************************************************)
\* the names bound at the top level of the modules the package imports from
ModuleNames ==
  [converter |->
     {"List", "Tuple", "Union", "torch", "HeteroData", "cq", "TopoDS_Shape",
      "extract_topology", "TopologyData", "extract_vertex_geometry",
      "extract_edge_geometry", "extract_face_geometry", "VertexGeometry",
      "EdgeGeometry", "FaceGeometry", "ControlPoint", "build_vertex_features",
      "build_edge_features", "build_face_features",
      "build_control_point_features", "build_edge_index", "cadquery_to_pyg"},
   types |->
     {"IntEnum", "CurveType", "SurfaceType", "NUM_CURVE_TYPES",
      "NUM_SURFACE_TYPES", "VERTEX_FEATURE_DIM", "CONTROL_POINT_FEATURE_DIM",
      "EDGE_FEATURE_DIM", "FACE_FEATURE_DIM"}]

\* the statements of __init__.py, in order
InitProgram ==
  << [kind |-> "from", module |-> "converter",
      names |-> <<"cadquery_to_pyg", "cadquery_to_pyg_simple">>],
     [kind |-> "from", module |-> "types",
      names |-> <<"CurveType", "SurfaceType">>],
     [kind |-> "assign", module |-> "", names |-> <<"__version__">>],
     [kind |-> "assign", module |-> "", names |-> <<"__all__">>] >>

\* __init__.py 12
ExportedNames ==
  {"cadquery_to_pyg", "cadquery_to_pyg_simple", "CurveType", "SurfaceType"}

\* the names a client may ask the package for
ClientNames == ExportedNames \cup {"__version__", "extract_topology", "cq"}

\* the exception of an import that does not find a name
ImportError(name) == Some([exception |-> "ImportError", got |-> name])

\* a client imports the package
InitImport ==
  /\ package \in {Client(request) : request \in SUBSET ClientNames}
  /\ arg = Object("NoneType", {"NoneType", "object"}, None)
  /\ calls = 0
  /\ results = <<>>
  /\ raised = <<>>
  /\ pc = "import"
  /\ Locals

\* __init__.py 8-12, then the client's own from-import: the next name is
\* bound, or is not found
ImportStep ==
  /\ pc = "import"
  /\ IF package.stmt > Len(InitProgram)
     THEN IF package.request \subseteq package.names
          THEN /\ pc' = "imported"
               /\ UNCHANGED <<error, package>>
          ELSE /\ pc' = "import_failed"
               /\ error' =
                    ImportError(CHOOSE n \in package.request : n \notin package.names)
               /\ UNCHANGED package
     ELSE LET st == InitProgram[package.stmt]
              name == st.names[package.k]
              last == package.k = Len(st.names)
          IN  IF st.kind = "assign" \/ name \in ModuleNames[st.module]
              THEN /\ package' =
                        [package EXCEPT
                           !.names = @ \cup {name},
                           !.stmt = IF last THEN @ + 1 ELSE @,
                           !.k = IF last THEN 1 ELSE @ + 1]
                   /\ UNCHANGED <<pc, error>>
              ELSE /\ pc' = "import_failed"
                   /\ error' = ImportError(name)
                   /\ package' = [package EXCEPT !.names = {}]
  /\ UNCHANGED <<arg, calls, results, raised, oracle_called, shape, cursor,
                 reg_vars, rel_vars, adj_vars, geom_vars, cp_vars, data>>

NextImport == ImportStep

SpecImport == InitImport /\ [][NextImport]_vars

\* conversions made one after the other
NextRepeat == Next \/ Call

SpecRepeat == InitRepeat /\ [][NextRepeat]_vars

(***************************************************************************)
(* Vocabulary of the properties.                                           *)
(***************************************************************************)
\* position of a statement in cadquery_to_pyg
PcRank(p) ==
  CASE p = "validate"       -> 0
    [] p = "rejected"       -> 0
    [] p = "failed"         -> 0
    [] p = "import"         -> 0
    [] p = "imported"       -> 0
    [] p = "import_failed"  -> 0
    [] p = "vertices"       -> 1
    [] p = "edges"          -> 2
    [] p = "faces"          -> 3
    [] p = "vertex_to_edge" -> 4
    [] p = "edge_to_face"   -> 5
    [] p = "ancestors"      -> 6
    [] p = "face_to_face"   -> 7
    [] p = "pairs"          -> 7
    [] p = "geometry"       -> 8
    [] p = "cp_edges"       -> 9
    [] p = "cp_faces"       -> 10
    [] p = "build"          -> 11
    [] p = "done"           -> 12

\* the loop at statement p has run to its end
Finished(p) == PcRank(pc) > PcRank(p)

\* how many iterations of the loop at statement p are complete
Processed(p, total) ==
  IF Finished(p) THEN total
  ELSE IF PcRank(pc) = PcRank(p) THEN cursor - 1
  ELSE 0

\* the occurrences the extraction loop at statement p has met so far
Met(p, kind) ==
  SubSeq(Explore(shape, kind), 1, Processed(p, Len(Explore(shape, kind))))

\* the identity tokens of a sequence of occurrences: the values the
\* registries are keyed by
Tokens(occs) == {_shape_hash(occs[k]) : k \in 1..Len(occs)}

\* the occurrences that carry a token for the first time, in order
FirstSeen(occs) ==
  LET numbered == [k \in 1..Len(occs) |-> [pos |-> k, occ |-> occs[k]]]
      firsts == SelectSeq(numbered,
                          LAMBDA r : \A j \in 1..(r.pos - 1) :
                                       _shape_hash(occs[j]) /= _shape_hash(r.occ))
  IN  [k \in 1..Len(firsts) |-> firsts[k].occ]

\* how often x occurs in the sequence
Count(seq, x) == Cardinality({k \in 1..Len(seq) : seq[k] = x})

OneEntryPerToken(p, kind, list) ==
  Finished(p) =>
    /\ Len(list) = Cardinality(Tokens(Explore(shape, kind)))
    /\ \A a, b \in 1..Len(list) :
         a /= b => _shape_hash(list[a]) /= _shape_hash(list[b])

\* C1: after extract_topology each of the vertex, edge and face lists holds
\* exactly one entry per distinct identity token met while exploring that
\* kind: as many entries as distinct tokens, no two entries with one token.
C1_OneEntryPerToken ==
  /\ OneEntryPerToken("vertices", "VERTEX", vertices)
  /\ OneEntryPerToken("edges", "EDGE", edges)
  /\ OneEntryPerToken("faces", "FACE", faces)

\* a vertex and an edge are met more often than once, and two registered
\* vertices have the same coordinates
C1_Witness ==
  /\ pc = "done"
  /\ Len(Explore(shape, "VERTEX")) > Len(vertices)
  /\ Len(Explore(shape, "EDGE")) > Len(edges)
  /\ Len(faces) > 1
  /\ \E a, b \in 1..Len(vertices) :
       a /= b /\ vertex_geoms[a] = vertex_geoms[b]

DenseFirstSeen(p, kind, map, list) ==
  LET met == Met(p, kind)
  IN  /\ list = FirstSeen(met)
      /\ DOMAIN map = Tokens(met)
      /\ \A k \in 1..Len(list) : map[_shape_hash(list[k])] = k - 1
      /\ {map[h] : h \in DOMAIN map} = 0..(Len(list) - 1)

\* C2: in every state, for each kind, the entity at list position i is the
\* i-th distinct token in traversal order, the map sends that token to i,
\* and the indices in use are exactly 0..n-1.
C2_DenseFirstSeen ==
  /\ DenseFirstSeen("vertices", "VERTEX", vertex_map, vertices)
  /\ DenseFirstSeen("edges", "EDGE", edge_map, edges)
  /\ DenseFirstSeen("faces", "FACE", face_map, faces)

\* in the middle of the edge loop, after an edge was met a second time
C2_Witness ==
  /\ pc = "edges" /\ cursor <= LoopLen
  /\ Len(edges) >= 2
  /\ cursor - 1 > Len(edges)

\* C3: the face-adjacent-face relation contains no pair (a, a).
C3_Irreflexive ==
  \A k \in 1..Len(face_to_face) : face_to_face[k][1] /= face_to_face[k][2]

\* C4: in every state (a, b) is in the face-adjacent-face list exactly when
\* (b, a) is.
C4_Symmetric ==
  \A k \in 1..Len(face_to_face) :
    \E j \in 1..Len(face_to_face) :
      face_to_face[j] = <<face_to_face[k][2], face_to_face[k][1]>>

\* between two insertions, with a pair of distinct faces in the list
C4_Witness ==
  /\ pc = "pairs"
  /\ \E k \in 1..Len(face_to_face) : face_to_face[k][1] /= face_to_face[k][2]

\* C5: no directed pair occurs twice in the face-adjacent-face list.
C5_PairDeduplicated ==
  \A j, k \in 1..Len(face_to_face) : j /= k => face_to_face[j] /= face_to_face[k]

\* the shape is a cube-like solid: 6 faces of 4 edges, 12 edges each on
\* exactly two faces, 8 vertices
CubeLike ==
  LET F == Explore(shape, "FACE")
      E == Explore(shape, "EDGE")
      V == Explore(shape, "VERTEX")
  IN  /\ Len(F) = 6 /\ Cardinality(Tokens(F)) = 6
      /\ Cardinality(Tokens(E)) = 12
      /\ Cardinality(Tokens(V)) = 8
      /\ Len(E) = 24
      /\ \A k \in 1..6 :
           /\ Len(Explore(F[k], "EDGE")) = 4
           /\ Cardinality(Tokens(Explore(F[k], "EDGE"))) = 4
      /\ \A h \in Tokens(E) :
           Cardinality({k \in 1..6 : h \in Tokens(Explore(F[k], "EDGE"))}) = 2
      /\ \A k \in 1..Len(E) : Len(Explore(E[k], "VERTEX")) = 2

\* C6: a cube-like solid yields 8 vertex, 12 edge and 6 face nodes, every
\* face is 4 times the source of a face-adjacent-face pair (24 pairs) and
\* the target of exactly 4 edge-bounds-face pairs.
C6_Cube ==
  (pc = "done" /\ CubeLike) =>
    /\ data.vertex_x.shape[1] = 8
    /\ data.edge_x.shape[1] = 12
    /\ data.face_x.shape[1] = 6
    /\ data.face_adjacent_face.shape = <<2, 24>>
    /\ \A f \in 0..5 :
         /\ Count(data.face_adjacent_face.rows[1], f) = 4
         /\ Count(data.edge_bounds_face.rows[2], f) = 4

C6_Witness == pc = "done" /\ CubeLike /\ shape.t.subs[1].ori = TopAbs_REVERSED

\* the pairs the sub-shapes of the first n owners give, one per occurrence,
\* in exploration order, owner by owner
OccurrencePairs(owners, n, kind, map) ==
  Flatten([e \in 1..n |->
            [k \in 1..Len(Explore(owners[e], kind)) |->
               <<map[_shape_hash(Explore(owners[e], kind)[k])], e - 1>>]])

\* C7: the vertex-bounds-edge list holds, edge by edge in increasing edge
\* index, one pair (v, e) per occurrence of a vertex among the bounding
\* vertices of e, in oracle order, repeats kept, and every edge with a
\* bounding vertex is a target.
C7_VertexBoundsEdge ==
  LET n == Processed("vertex_to_edge", Len(edges))
  IN  /\ vertex_to_edge = OccurrencePairs(edges, n, "VERTEX", vertex_map)
      /\ \A e \in 1..n :
           Explore(edges[e], "VERTEX") /= <<>> =>
             \E k \in 1..Len(vertex_to_edge) : vertex_to_edge[k][2] = e - 1

\* a closed edge has given the same pair twice
C7_Witness ==
  /\ Finished("vertex_to_edge")
  /\ Len(edges) >= 2
  /\ \E j, k \in 1..Len(vertex_to_edge) :
       j /= k /\ vertex_to_edge[j] = vertex_to_edge[k]

\* C8: the edge-bounds-face list holds, face by face in increasing face
\* index, one pair (e, f) per occurrence of an edge on the boundary of f;
\* a seam gives its pair twice.
C8_EdgeBoundsFace ==
  LET n == Processed("edge_to_face", Len(faces))
  IN  edge_to_face = OccurrencePairs(faces, n, "EDGE", edge_map)

\* a seam has given the same pair twice
C8_Witness ==
  /\ Finished("edge_to_face")
  /\ Len(faces) >= 2
  /\ \E j, k \in 1..Len(edge_to_face) :
       j /= k /\ edge_to_face[j] = edge_to_face[k]

\* every pair of the relation refers to a row of its source and target kind
ValidIndex(rel, src, dst) ==
  /\ Len(rel.rows) = 2
  /\ \A k \in 1..rel.shape[2] :
       /\ rel.rows[1][k] \in 0..(src.shape[1] - 1)
       /\ rel.rows[2][k] \in 0..(dst.shape[1] - 1)

\* C9: in the graph returned every pair of each of the five relations
\* refers to existing nodes.
C9_ValidIndices ==
  pc = "done" =>
    /\ ValidIndex(data.vertex_bounds_edge, data.vertex_x, data.edge_x)
    /\ ValidIndex(data.edge_bounds_face, data.edge_x, data.face_x)
    /\ ValidIndex(data.face_adjacent_face, data.face_x, data.face_x)
    /\ ValidIndex(data.cp_controls_edge, data.control_point_x, data.edge_x)
    /\ ValidIndex(data.cp_controls_face, data.control_point_x, data.face_x)

\* a graph in which none of the five relations is empty
C9_Witness ==
  /\ pc = "done"
  /\ data.vertex_bounds_edge.shape[2] > 0
  /\ data.edge_bounds_face.shape[2] > 0
  /\ data.face_adjacent_face.shape[2] > 0
  /\ data.cp_controls_edge.shape[2] > 0
  /\ data.cp_controls_face.shape[2] > 0

\* the value an Optional scalar gives its column
Filled(opt) == IF opt = None THEN 0 ELSE opt[1]

\* the value an Optional triple gives the k-th of its columns
Filled3(opt, k) == IF opt = None THEN 0 ELSE opt[1][k]

\* the row of an edge, column by column, as documented
EdgeLayout(row, g) ==
  /\ \A c \in 0..(NUM_CURVE_TYPES - 1) :
       row[c] = IF c = g.curve_type THEN 1 ELSE 0
  /\ row[NUM_CURVE_TYPES] = g.orientation
  /\ row[NUM_CURVE_TYPES + 1] = g.degree
  /\ row[NUM_CURVE_TYPES + 2] = Flag(g.is_closed)
  /\ row[NUM_CURVE_TYPES + 3] = g.t_min
  /\ row[NUM_CURVE_TYPES + 4] = g.t_max
  /\ \A k \in 1..3 :
       /\ row[NUM_CURVE_TYPES + 4 + k] = Filled3(g.line_direction, k)
       /\ row[NUM_CURVE_TYPES + 7 + k] = Filled3(g.center, k)
       /\ row[NUM_CURVE_TYPES + 10 + k] = Filled3(g.axis, k)
  /\ row[NUM_CURVE_TYPES + 14] = Filled(g.radius)

\* every row of the edge matrix has the given width and the documented
\* layout
EdgeRows(width) ==
  pc = "done" =>
    /\ data.edge_x.shape = <<Len(edge_geoms), width>>
    /\ Len(data.edge_x.rows) = Len(edge_geoms)
    /\ \A i \in 1..Len(edge_geoms) :
         /\ DOMAIN data.edge_x.rows[i] = 0..(width - 1)
         /\ EdgeLayout(data.edge_x.rows[i], edge_geoms[i])

\* C10 as stated: every edge feature row has width curveTypeCount + 14 (23
\* columns) in the documented layout, whatever the curve type.
C10_Width23 == NUM_CURVE_TYPES = 9 /\ EdgeRows(NUM_CURVE_TYPES + 14)

\* C10 amended: every edge feature row has width curveTypeCount + 15 (24
\* columns): one-hot curve type, orientation, degree, is_closed, t_min,
\* t_max, line_direction x3, center x3, axis x3, radius, whatever the curve
\* type.
C10_Width24 == NUM_CURVE_TYPES = 9 /\ EdgeRows(NUM_CURVE_TYPES + 15)

\* two edges of different curve types, one of them with a radius
C10_Witness ==
  /\ pc = "done"
  /\ \E a, b \in 1..Len(edge_geoms) :
       /\ edge_geoms[a].curve_type /= edge_geoms[b].curve_type
       /\ edge_geoms[a].radius /= None
       /\ data.edge_x.rows[a][NUM_CURVE_TYPES + 14] > 0
       /\ edge_geoms[b].radius = None

\* the row of a face, column by column, as documented
FaceLayout(row, g) ==
  /\ \A c \in 0..(NUM_SURFACE_TYPES - 1) :
       row[c] = IF c = g.surface_type THEN 1 ELSE 0
  /\ row[NUM_SURFACE_TYPES] = g.orientation
  /\ row[NUM_SURFACE_TYPES + 1] = g.u_degree
  /\ row[NUM_SURFACE_TYPES + 2] = g.v_degree
  /\ row[NUM_SURFACE_TYPES + 3] = Flag(g.is_u_closed)
  /\ row[NUM_SURFACE_TYPES + 4] = Flag(g.is_v_closed)
  /\ row[NUM_SURFACE_TYPES + 5] = g.u_min
  /\ row[NUM_SURFACE_TYPES + 6] = g.u_max
  /\ row[NUM_SURFACE_TYPES + 7] = g.v_min
  /\ row[NUM_SURFACE_TYPES + 8] = g.v_max
  /\ \A k \in 1..3 :
       /\ row[NUM_SURFACE_TYPES + 8 + k] = Filled3(g.plane_normal, k)
       /\ row[NUM_SURFACE_TYPES + 11 + k] = Filled3(g.plane_origin, k)
       /\ row[NUM_SURFACE_TYPES + 14 + k] = Filled3(g.axis_direction, k)
       /\ row[NUM_SURFACE_TYPES + 17 + k] = Filled3(g.axis_origin, k)
  /\ row[NUM_SURFACE_TYPES + 21] = Filled(g.radius)
  /\ row[NUM_SURFACE_TYPES + 22] = Filled(g.radius2)

\* every row of the face matrix has the given width and the documented
\* layout
FaceRows(width) ==
  pc = "done" =>
    /\ data.face_x.shape = <<Len(face_geoms), width>>
    /\ Len(data.face_x.rows) = Len(face_geoms)
    /\ \A i \in 1..Len(face_geoms) :
         /\ DOMAIN data.face_x.rows[i] = 0..(width - 1)
         /\ FaceLayout(data.face_x.rows[i], face_geoms[i])

\* C11 as stated: every face feature row has width surfaceTypeCount + 24 (35
\* columns) in the documented layout, whatever the surface type.
C11_Width35 == NUM_SURFACE_TYPES = 11 /\ FaceRows(NUM_SURFACE_TYPES + 24)

\* C11 amended: every face feature row has width surfaceTypeCount + 23 (34
\* columns): one-hot surface type, orientation, u_degree, v_degree,
\* u_closed, v_closed, u_min, u_max, v_min, v_max, plane_normal x3,
\* plane_origin x3, axis_direction x3, axis_origin x3, radius, radius2,
\* whatever the surface type.
C11_Width34 == NUM_SURFACE_TYPES = 11 /\ FaceRows(NUM_SURFACE_TYPES + 23)

\* two faces of different surface types, one of them with both radii
C11_Witness ==
  /\ pc = "done"
  /\ \E a, b \in 1..Len(face_geoms) :
       /\ face_geoms[a].surface_type /= face_geoms[b].surface_type
       /\ face_geoms[a].radius2 /= None
       /\ data.face_x.rows[a][NUM_SURFACE_TYPES + 22] > 0
       /\ data.face_x.rows[a][NUM_SURFACE_TYPES + 21] > 0
       /\ face_geoms[b].radius = None

\* the columns 0..n-1 of the row hold a single 1, at column tag, and 0
\* elsewhere
OneHot(row, n, tag) ==
  /\ tag \in 0..(n - 1)
  /\ {c \in 0..(n - 1) : row[c] = 1} = {tag}
  /\ \A c \in 0..(n - 1) \ {tag} : row[c] = 0

\* the first column of 0..n-1 that holds the greatest value of the block
ArgMax(row, n) ==
  CHOOSE c \in 0..(n - 1) :
    /\ \A d \in 0..(n - 1) : row[d] <= row[c]
    /\ \A d \in 0..(c - 1) : row[d] < row[c]

\* C12: in every edge row the first NUM_CURVE_TYPES columns, and in every
\* face row the first NUM_SURFACE_TYPES columns, are one-hot at the integer
\* value of the entity's type tag, and argmax over the block gives the type.
C12_OneHot ==
  pc = "done" =>
    /\ \A i \in 1..Len(edge_geoms) :
         /\ edge_geoms[i].curve_type \in CurveType
         /\ OneHot(data.edge_x.rows[i], NUM_CURVE_TYPES,
                   edge_geoms[i].curve_type)
         /\ ArgMax(data.edge_x.rows[i], NUM_CURVE_TYPES)
              = edge_geoms[i].curve_type
    /\ \A i \in 1..Len(face_geoms) :
         /\ face_geoms[i].surface_type \in SurfaceType
         /\ OneHot(data.face_x.rows[i], NUM_SURFACE_TYPES,
                   face_geoms[i].surface_type)
         /\ ArgMax(data.face_x.rows[i], NUM_SURFACE_TYPES)
              = face_geoms[i].surface_type

\* a graph with two edges of different types and a face whose type is not
\* the first one, each flagged in its own column
C12_Witness ==
  /\ pc = "done"
  /\ \E a, b \in 1..Len(edge_geoms) :
       /\ edge_geoms[a].curve_type /= edge_geoms[b].curve_type
       /\ data.edge_x.rows[a][edge_geoms[a].curve_type] = 1
       /\ data.edge_x.rows[b][edge_geoms[b].curve_type] = 1
  /\ \E f \in 1..Len(face_geoms) :
       /\ face_geoms[f].surface_type > 0
       /\ data.face_x.rows[f][face_geoms[f].surface_type] = 1

\* the n columns of the row from column first on are 0 when the field is
\* unset
ZeroIfUnset(row, opt, first, n) ==
  opt = None => \A c \in first..(first + n - 1) : row[c] = 0

\* C13: a field the descriptor leaves unset (edges: line_direction, center,
\* axis, radius; faces: plane_normal, plane_origin, axis_direction,
\* axis_origin, radius, radius2) is all zeros in the feature row, whatever
\* was written for the entities before it.
C13_UnsetIsZero ==
  pc = "done" =>
    /\ \A i \in 1..Len(edge_geoms) :
         LET row == data.edge_x.rows[i]
             g == edge_geoms[i]
         IN  /\ ZeroIfUnset(row, g.line_direction, NUM_CURVE_TYPES + 5, 3)
             /\ ZeroIfUnset(row, g.center, NUM_CURVE_TYPES + 8, 3)
             /\ ZeroIfUnset(row, g.axis, NUM_CURVE_TYPES + 11, 3)
             /\ ZeroIfUnset(row, g.radius, NUM_CURVE_TYPES + 14, 1)
    /\ \A i \in 1..Len(face_geoms) :
         LET row == data.face_x.rows[i]
             g == face_geoms[i]
         IN  /\ ZeroIfUnset(row, g.plane_normal, NUM_SURFACE_TYPES + 9, 3)
             /\ ZeroIfUnset(row, g.plane_origin, NUM_SURFACE_TYPES + 12, 3)
             /\ ZeroIfUnset(row, g.axis_direction, NUM_SURFACE_TYPES + 15, 3)
             /\ ZeroIfUnset(row, g.axis_origin, NUM_SURFACE_TYPES + 18, 3)
             /\ ZeroIfUnset(row, g.radius, NUM_SURFACE_TYPES + 21, 1)
             /\ ZeroIfUnset(row, g.radius2, NUM_SURFACE_TYPES + 22, 1)

\* an edge with a radius followed by an edge without one, and a face with
\* a plane origin followed by a face without one: the later rows hold 0
\* where the earlier rows hold a value
C13_Witness ==
  /\ pc = "done"
  /\ \E a, b \in 1..Len(edge_geoms) :
       /\ a < b
       /\ edge_geoms[a].radius /= None
       /\ data.edge_x.rows[a][NUM_CURVE_TYPES + 14] /= 0
       /\ edge_geoms[b].radius = None
       /\ data.edge_x.rows[b][NUM_CURVE_TYPES + 14] = 0
  /\ \E a, b \in 1..Len(face_geoms) :
       /\ a < b
       /\ face_geoms[a].plane_origin /= None
       /\ \E c \in 12..14 : data.face_x.rows[a][NUM_SURFACE_TYPES + c] /= 0
       /\ face_geoms[b].plane_origin = None
       /\ \A c \in 12..14 : data.face_x.rows[b][NUM_SURFACE_TYPES + c] = 0

\* the columns of a relation whose target is the entity of index e
ColumnsOf(rel, e) == {k \in 1..rel.shape[2] : rel.rows[2][k] = e}

\* the kernel curve of the edge has poles
HasPoles(e) == e.t.geom.code \in {5, 6}

\* C14: for every edge that owns n >= 1 control points, the tags of its
\* control_point-controls-edge relations are the integers 0..n-1, each
\* once, increasing with the control-point node index, and the kernel's
\* pole i is the control point tagged i-1.
C14_EdgeTags ==
  pc = "done" =>
    \A e \in 1..Len(edges) :
      LET rel == data.cp_controls_edge
          tag == data.cp_controls_edge_attr
          cols == ColumnsOf(rel, e - 1)
          n == IF HasPoles(edges[e]) THEN Len(edges[e].t.geom.poles) ELSE 0
      IN  /\ Cardinality(cols) = n
          /\ tag.shape = <<rel.shape[2], 1>>
          /\ \A k \in cols : Len(tag.rows[k]) = 1
          /\ {tag.rows[k][1] : k \in cols} = 0..(n - 1)
          /\ \A j, k \in cols :
               rel.rows[1][j] < rel.rows[1][k] <=> tag.rows[j][1] < tag.rows[k][1]
          /\ \A k \in cols :
               LET cp == data.control_point_x.rows[rel.rows[1][k] + 1]
                   pole == edges[e].t.geom.poles[tag.rows[k][1] + 1]
               IN  <<cp[0], cp[1], cp[2]>> = pole

\* two edges own control points, one of them three; the first control
\* point of the later edge is tagged 0 although its node index is not 0
C14_Witness ==
  /\ pc = "done"
  /\ \E a, b \in 1..Len(edges) :
       /\ a /= b
       /\ Cardinality(ColumnsOf(data.cp_controls_edge, a - 1)) >= 3
       /\ \E k \in ColumnsOf(data.cp_controls_edge, b - 1) :
            /\ data.cp_controls_edge_attr.rows[k][1] = 0
            /\ data.cp_controls_edge.rows[1][k] > 0

\* the kernel surface of the face has a grid of poles
HasGrid(f) == f.t.geom.code \in {5, 6}

\* the least control-point node index among the columns
FirstNode(rel, cols) ==
  CHOOSE m \in {rel.rows[1][k] : k \in cols} :
    \A k \in cols : m <= rel.rows[1][k]

\* C15: for every face that owns an nu-by-nv grid of control points, the
\* tags of its control_point-controls-face relations are the zero-based
\* pairs of {0..nu-1} x {0..nv-1}, each once, in row-major order: the k-th
\* control point appended for the face is tagged (k div nv, k mod nv).
C15_FaceTags ==
  pc = "done" =>
    \A f \in 1..Len(faces) :
      LET rel == data.cp_controls_face
          tag == data.cp_controls_face_attr
          cols == ColumnsOf(rel, f - 1)
          poles == faces[f].t.geom.poles
          nu == IF HasGrid(faces[f]) THEN Len(poles) ELSE 0
          nv == IF HasGrid(faces[f]) THEN Len(poles[1]) ELSE 0
      IN  /\ Cardinality(cols) = nu * nv
          /\ tag.shape = <<rel.shape[2], 2>>
          /\ {tag.rows[k] : k \in cols} = (0..(nu - 1)) \X (0..(nv - 1))
          /\ \A k \in cols :
               LET nth == rel.rows[1][k] - FirstNode(rel, cols)
                   cp == data.control_point_x.rows[rel.rows[1][k] + 1]
               IN  /\ tag.rows[k] = <<nth \div nv, nth % nv>>
                   /\ <<cp[0], cp[1], cp[2]>>
                        = poles[tag.rows[k][1] + 1][tag.rows[k][2] + 1]

\* a face owns a grid with more rows than columns, and the control point
\* that closes its first row is followed by one tagged (1, 0)
C15_Witness ==
  /\ pc = "done"
  /\ \E f \in 1..Len(faces) :
       /\ HasGrid(faces[f])
       /\ Len(faces[f].t.geom.poles) > Len(faces[f].t.geom.poles[1])
       /\ Len(faces[f].t.geom.poles[1]) > 1
       /\ \E j, k \in ColumnsOf(data.cp_controls_face, f - 1) :
            /\ data.cp_controls_face.rows[1][k] = data.cp_controls_face.rows[1][j] + 1
            /\ data.cp_controls_face_attr.rows[j] = <<0, 1>>
            /\ data.cp_controls_face_attr.rows[k] = <<1, 0>>

\* the fields a returned graph carries: the four node kinds with their
\* auxiliary lists, the five relations and the two tag containers
GraphFields ==
  {"vertex_x", "edge_x", "face_x", "control_point_x",
   "edge_knots", "edge_multiplicities",
   "face_u_knots", "face_v_knots",
   "face_u_multiplicities", "face_v_multiplicities",
   "vertex_bounds_edge", "edge_bounds_face", "face_adjacent_face",
   "cp_controls_edge", "cp_controls_face",
   "cp_controls_edge_attr", "cp_controls_face_attr"}

\* a feature matrix of an empty list of entities
EmptyFeatures(list, x, width) ==
  list = <<>> => x = [shape |-> <<0, width>>, rows |-> <<>>]

\* the index container of a relation without pairs
EmptyIndex(pairs, rel) ==
  pairs = <<>> => rel = [shape |-> <<2, 0>>, rows |-> << <<>>, <<>> >>]

\* C16: every conversion returns all four node kinds and all five relation
\* kinds; a kind with no entity has an empty list and a (0, width) feature
\* matrix, a relation with no pair is a (2, 0) container, and with no
\* control point the control-point matrix is (0, 4) and the two tag
\* containers are (0, 1) and (0, 2).
C16_EmptyContainers ==
  /\ pc /= "done" => data = <<>>
  /\ pc = "done" =>
       /\ DOMAIN data = GraphFields
       /\ Explore(shape, "VERTEX") = <<>> => vertices = <<>>
       /\ Explore(shape, "EDGE") = <<>> => edges = <<>>
       /\ Explore(shape, "FACE") = <<>> => faces = <<>>
       /\ EmptyFeatures(vertices, data.vertex_x, 3)
       /\ EmptyFeatures(edges, data.edge_x, NUM_CURVE_TYPES + 15)
       /\ EmptyFeatures(faces, data.face_x, NUM_SURFACE_TYPES + 23)
       /\ EmptyFeatures(control_points, data.control_point_x, 4)
       /\ EmptyIndex(vertex_to_edge, data.vertex_bounds_edge)
       /\ EmptyIndex(edge_to_face, data.edge_bounds_face)
       /\ EmptyIndex(face_to_face, data.face_adjacent_face)
       /\ EmptyIndex(cp_to_edge, data.cp_controls_edge)
       /\ EmptyIndex(cp_to_face, data.cp_controls_face)
       /\ cp_to_edge = <<>> =>
            data.cp_controls_edge_attr = [shape |-> <<0, 1>>, rows |-> <<>>]
       /\ cp_to_face = <<>> =>
            data.cp_controls_face_attr = [shape |-> <<0, 2>>, rows |-> <<>>]

\* the graph of a shape without any entity: every container is there and
\* empty
C16_Witness ==
  /\ pc = "done"
  /\ Explore(shape, "VERTEX") = <<>>
  /\ Explore(shape, "EDGE") = <<>>
  /\ Explore(shape, "FACE") = <<>>
  /\ data.vertex_x.shape = <<0, 3>>
  /\ data.face_adjacent_face.shape = <<2, 0>>
  /\ data.control_point_x.shape = <<0, 4>>
  /\ data.cp_controls_edge_attr.shape = <<0, 1>>
  /\ data.cp_controls_face_attr.shape = <<0, 2>>

\* the kernel geometry of the entity is a B-spline
IsBSpline(s) == s.t.geom.code = 6

\* C17: the edge knots and multiplicities lists have one entry per edge
\* node and the four face lists one entry per face node, in entity-index
\* order; the entry is the empty list unless the entity is a B-spline, and
\* for a B-spline the knots and their multiplicities have the same length.
C17_AuxiliaryLists ==
  pc = "done" =>
    /\ Len(data.edge_knots) = data.edge_x.shape[1]
    /\ Len(data.edge_multiplicities) = data.edge_x.shape[1]
    /\ data.edge_x.shape[1] = Len(edges)
    /\ \A e \in 1..Len(edges) :
         IF IsBSpline(edges[e])
         THEN /\ data.edge_knots[e] = edges[e].t.geom.knots
              /\ data.edge_multiplicities[e] = edges[e].t.geom.mults
              /\ Len(data.edge_knots[e]) = Len(data.edge_multiplicities[e])
         ELSE /\ data.edge_knots[e] = <<>>
              /\ data.edge_multiplicities[e] = <<>>
    /\ Len(data.face_u_knots) = data.face_x.shape[1]
    /\ Len(data.face_v_knots) = data.face_x.shape[1]
    /\ Len(data.face_u_multiplicities) = data.face_x.shape[1]
    /\ Len(data.face_v_multiplicities) = data.face_x.shape[1]
    /\ data.face_x.shape[1] = Len(faces)
    /\ \A f \in 1..Len(faces) :
         IF IsBSpline(faces[f])
         THEN /\ data.face_u_knots[f] = faces[f].t.geom.uknots
              /\ data.face_v_knots[f] = faces[f].t.geom.vknots
              /\ data.face_u_multiplicities[f] = faces[f].t.geom.umults
              /\ data.face_v_multiplicities[f] = faces[f].t.geom.vmults
              /\ Len(data.face_u_knots[f]) = Len(data.face_u_multiplicities[f])
              /\ Len(data.face_v_knots[f]) = Len(data.face_v_multiplicities[f])
         ELSE /\ data.face_u_knots[f] = <<>>
              /\ data.face_v_knots[f] = <<>>
              /\ data.face_u_multiplicities[f] = <<>>
              /\ data.face_v_multiplicities[f] = <<>>

\* a B-spline edge that is not the first edge, after an edge that is not
\* a B-spline, and a B-spline face whose u and v knots differ
C17_Witness ==
  /\ pc = "done"
  /\ \E a, b \in 1..Len(edges) :
       /\ a < b
       /\ ~IsBSpline(edges[a])
       /\ data.edge_knots[a] = <<>>
       /\ IsBSpline(edges[b])
       /\ Len(data.edge_knots[b]) >= 2
       /\ data.edge_multiplicities[b] /= data.edge_knots[b]
  /\ \E f \in 1..Len(faces) :
       /\ IsBSpline(faces[f])
       /\ data.face_u_knots[f] /= <<>>
       /\ data.face_u_knots[f] /= data.face_v_knots[f]

\* the object is none of the accepted representations of a shape
NotAShape(obj) == obj.mro \cap {"Workplane", "Shape", "TopoDS_Shape"} = {}

\* nothing has been extracted, related or built in this call
Untouched ==
  /\ ~oracle_called
  /\ shape = NullShape
  /\ vertices = <<>> /\ edges = <<>> /\ faces = <<>>
  /\ vertex_to_edge = <<>> /\ edge_to_face = <<>> /\ face_to_face = <<>>
  /\ vertex_geoms = <<>> /\ edge_geoms = <<>> /\ face_geoms = <<>>
  /\ control_points = <<>>
  /\ data = <<>>

\* C18: an argument that is not a CadQuery Workplane, a CadQuery Shape or a
\* TopoDS_Shape is rejected with a TypeError naming its type, before any
\* query to the kernel, and no graph is produced.
C18_RejectsEagerly ==
  /\ NotAShape(arg) =>
       /\ pc \in {"validate", "rejected"}
       /\ Untouched
       /\ pc = "rejected" =>
            error = Some([exception |-> "TypeError", got |-> arg.class])
  /\ pc = "rejected" => NotAShape(arg)
  /\ pc = "validate" => error = None

\* an object of another class that holds a shape has been rejected
C18_Witness ==
  /\ pc = "rejected"
  /\ arg.wrapped /= None
  /\ error /= None
  /\ error[1].got = "Assembly"
  /\ ~oracle_called
  /\ data = <<>>

\* the kernel type codes whose parameters extract_edge_geometry reads
CurveBranches == {0, 1, 2, 5, 6}

\* the kernel type codes whose parameters extract_face_geometry reads
SurfaceBranches == {0, 1, 2, 3, 4, 5, 6}

\* the columns first..last of the row are 0
ZeroColumns(row, first, last) == \A c \in first..last : row[c] = 0

\* C19: a kernel type code outside the type maps is classified as OTHER and
\* the conversion returns; the descriptor of an entity of type OTHER, or of
\* any type without a dedicated branch, has degree 1, the kernel's domain,
\* orientation and closed flags, and no type-specific parameter, knot list
\* or control point, so its row is zero after the generic columns.
C19_GenericOnly ==
  pc = "done" =>
    /\ error = None
    /\ \A e \in 1..Len(edges) :
         LET c == edges[e].t.geom
             g == edge_geoms[e]
             row == data.edge_x.rows[e]
         IN  c.code \notin CurveBranches =>
               /\ g.curve_type = IF c.code \in 0..8 THEN c.code ELSE CurveType_OTHER
               /\ g.degree = 1
               /\ g.t_min = c.first /\ g.t_max = c.last
               /\ g.is_closed = c.closed
               /\ g.orientation \in {1, -1}
               /\ g.line_direction = None /\ g.center = None /\ g.axis = None
               /\ g.radius = None /\ g.minor_radius = None
               /\ g.knots = None /\ g.multiplicities = None
               /\ g.control_points = None
               /\ row[NUM_CURVE_TYPES + 1] = 1
               /\ row[NUM_CURVE_TYPES + 3] = c.first
               /\ row[NUM_CURVE_TYPES + 4] = c.last
               /\ ZeroColumns(row, NUM_CURVE_TYPES + 5, NUM_CURVE_TYPES + 14)
               /\ data.edge_knots[e] = <<>>
               /\ ColumnsOf(data.cp_controls_edge, e - 1) = {}
    /\ \A f \in 1..Len(faces) :
         LET s == faces[f].t.geom
             g == face_geoms[f]
             row == data.face_x.rows[f]
         IN  s.code \notin SurfaceBranches =>
               /\ g.surface_type =
                    IF s.code \in 0..10 THEN s.code ELSE SurfaceType_OTHER
               /\ g.u_degree = 1 /\ g.v_degree = 1
               /\ g.u_min = s.u1 /\ g.u_max = s.u2
               /\ g.v_min = s.v1 /\ g.v_max = s.v2
               /\ g.is_u_closed = s.uclosed /\ g.is_v_closed = s.vclosed
               /\ g.orientation \in {1, -1}
               /\ g.plane_normal = None /\ g.plane_origin = None
               /\ g.axis_direction = None /\ g.axis_origin = None
               /\ g.radius = None /\ g.radius2 = None /\ g.half_angle = None
               /\ g.u_knots = None /\ g.v_knots = None
               /\ g.u_multiplicities = None /\ g.v_multiplicities = None
               /\ g.control_points = None
               /\ ZeroColumns(row, NUM_SURFACE_TYPES + 9, NUM_SURFACE_TYPES + 22)
               /\ data.face_u_knots[f] = <<>> /\ data.face_v_knots[f] = <<>>
               /\ ColumnsOf(data.cp_controls_face, f - 1) = {}

\* a graph with an edge of a type code unknown to the curve map and a face
\* of a type code unknown to the surface map, each flagged OTHER and with
\* its domain in the row
C19_Witness ==
  /\ pc = "done"
  /\ \E e \in 1..Len(edges) :
       /\ edges[e].t.geom.code \notin DOMAIN CURVE_TYPE_MAP
       /\ edge_geoms[e].curve_type = CurveType_OTHER
       /\ data.edge_x.rows[e][CurveType_OTHER] = 1
       /\ data.edge_x.rows[e][NUM_CURVE_TYPES + 4] > 0
  /\ \E f \in 1..Len(faces) :
       /\ faces[f].t.geom.code \notin DOMAIN SURFACE_TYPE_MAP
       /\ face_geoms[f].surface_type = SurfaceType_OTHER
       /\ data.face_x.rows[f][SurfaceType_OTHER] = 1
       /\ data.face_x.rows[f][NUM_SURFACE_TYPES + 8] > 0

\* C20: a conversion starts from empty registries, its indices start at 0,
\* and it leaves the same outcome (node indices, feature rows, auxiliary
\* lists, relations, tags, or rejection) as every earlier conversion of
\* the same input, whatever was converted in between.
C20_SameInputSameOutput ==
  /\ pc = "validate" =>
       /\ vertex_map = EmptyDict /\ edge_map = EmptyDict /\ face_map = EmptyDict
       /\ vertices = <<>> /\ edges = <<>> /\ faces = <<>>
       /\ vertex_to_edge = <<>> /\ edge_to_face = <<>> /\ face_to_face = <<>>
       /\ control_points = <<>>
       /\ data = <<>>
  /\ vertices /= <<>> => vertex_map[_shape_hash(vertices[1])] = 0
  /\ edges /= <<>> => edge_map[_shape_hash(edges[1])] = 0
  /\ faces /= <<>> => face_map[_shape_hash(faces[1])] = 0
  /\ pc \in {"done", "rejected"} =>
       \A k \in 1..Len(results) : results[k].arg = arg => results[k] = Outcome

\* the third conversion has returned a graph for the input of the first,
\* after the conversion of another input that gave a graph of its own
C20_Witness ==
  /\ pc = "done"
  /\ calls = 3
  /\ Len(results) = 2
  /\ results[1].arg = arg
  /\ results[2].arg /= arg
  /\ results[2].error = None
  /\ results[2].data.vertex_x.shape[1] > 0
  /\ data.vertex_x.shape[1] > 0
  /\ data.face_adjacent_face.shape[2] > 0
  /\ results[1].data = data

\* C21: a failure raised by the kernel during traversal, classification or
\* a parameter query ends the conversion with that same failure: the query
\* is issued once, nothing catches or replaces the failure, and no graph,
\* partial or whole, is returned.
C21_FailurePropagates ==
  /\ Len(raised) <= 1
  /\ raised /= <<>> =>
       /\ pc = "failed"
       /\ error = Some(KernelError(raised[1]))
       /\ data = <<>>
  /\ pc = "failed" => raised /= <<>>
  /\ pc = "done" => raised = <<>> /\ error = None

\* the kernel has failed after faces were registered and related, while the
\* descriptors were being built: the conversion has ended with the failure
\* and without a graph
C21_Witness ==
  /\ pc = "failed"
  /\ raised = <<"Standard_NoSuchObject">>
  /\ error /= None
  /\ error[1].exception = "Standard_NoSuchObject"
  /\ faces /= <<>>
  /\ edge_to_face /= <<>>
  /\ vertex_geoms /= <<>>
  /\ face_geoms = <<>>
  /\ data = <<>>

\* the control-point rows a relation gives the entity of index e, with
\* their tags
PointsOf(rel, tag, e) ==
  {<<tag.rows[k], data.control_point_x.rows[rel.rows[1][k] + 1]>> :
     k \in ColumnsOf(rel, e)}

\* everything the graph says about the edge of number e
EdgeOutput(e) ==
  [row |-> data.edge_x.rows[e],
   knots |-> data.edge_knots[e],
   multiplicities |-> data.edge_multiplicities[e],
   points |-> PointsOf(data.cp_controls_edge, data.cp_controls_edge_attr, e - 1)]

\* everything the graph says about the face of number f
FaceOutput(f) ==
  [row |-> data.face_x.rows[f],
   u_knots |-> data.face_u_knots[f],
   v_knots |-> data.face_v_knots[f],
   u_multiplicities |-> data.face_u_multiplicities[f],
   v_multiplicities |-> data.face_v_multiplicities[f],
   points |-> PointsOf(data.cp_controls_face, data.cp_controls_face_attr, f - 1)]

\* C22: two entities of the same type whose descriptors differ in a
\* recorded parameter (an ellipse's minor radius and a cone's half-angle
\* included) differ in the graph: in their feature row, an auxiliary list
\* or a control-point node.
C22_Lossless ==
  pc = "done" =>
    /\ \A a, b \in 1..Len(edge_geoms) :
         (edge_geoms[a].curve_type = edge_geoms[b].curve_type
            /\ edge_geoms[a] /= edge_geoms[b])
           => EdgeOutput(a) /= EdgeOutput(b)
    /\ \A a, b \in 1..Len(face_geoms) :
         (face_geoms[a].surface_type = face_geoms[b].surface_type
            /\ face_geoms[a] /= face_geoms[b])
           => FaceOutput(a) /= FaceOutput(b)

\* C23: importing the package succeeds, and afterwards every name listed
\* in __all__ (cadquery_to_pyg, cadquery_to_pyg_simple, CurveType,
\* SurfaceType) is bound in the package.
C23_ImportSucceeds ==
  /\ pc /= "import_failed"
  /\ error = None
  /\ package.stmt > Len(InitProgram) => ExportedNames \subseteq package.names

\* the poles the kernel holds for the registered edges: (edge, pole) pairs
EdgePoles ==
  {<<e, i>> \in (1..Len(edges)) \X (1..MaxPoles) :
     HasPoles(edges[e]) /\ i <= Len(edges[e].t.geom.poles)}

\* the poles the kernel holds for the registered faces: (face, u, v)
FacePoles ==
  {<<f, u, v>> \in (1..Len(faces)) \X (1..MaxPoles) \X (1..MaxPoles) :
     /\ HasGrid(faces[f])
     /\ u <= Len(faces[f].t.geom.poles)
     /\ v <= Len(faces[f].t.geom.poles[1])}

\* the sources of the relation are first, first + 1, ... in column order
\* and its targets never decrease
AppendOrder(rel, first) ==
  /\ \A k \in 1..rel.shape[2] : rel.rows[1][k] = first + k - 1
  /\ \A k \in 2..rel.shape[2] : rel.rows[2][k - 1] <= rel.rows[2][k]

\* C24: control-point nodes are numbered densely in append order, the
\* curve-owned points first (edge by edge, in sequence order), then the
\* surface-owned points (face by face); there are as many nodes as the
\* entities own control points, each node is the source of exactly one
\* controls relation, and each relation has as many tag rows as pairs.
C24_ControlPointNumbering ==
  pc = "done" =>
    LET re == data.cp_controls_edge
        rf == data.cp_controls_face
        ne == Cardinality(EdgePoles)
        nf == Cardinality(FacePoles)
    IN  /\ data.control_point_x.shape = <<ne + nf, 4>>
        /\ Len(data.control_point_x.rows) = ne + nf
        /\ re.shape = <<2, ne>>
        /\ rf.shape = <<2, nf>>
        /\ AppendOrder(re, 0)
        /\ AppendOrder(rf, ne)
        /\ \A n \in 0..(ne + nf - 1) :
             Cardinality({k \in 1..ne : re.rows[1][k] = n})
               + Cardinality({k \in 1..nf : rf.rows[1][k] = n}) = 1
        /\ data.cp_controls_edge_attr.shape[1] = ne
        /\ Len(data.cp_controls_edge_attr.rows) = ne
        /\ data.cp_controls_face_attr.shape[1] = nf
        /\ Len(data.cp_controls_face_attr.rows) = nf
        /\ \A k \in 2..ne :
             re.rows[2][k - 1] = re.rows[2][k] =>
               data.cp_controls_edge_attr.rows[k][1]
                 = data.cp_controls_edge_attr.rows[k - 1][1] + 1
        /\ \A k \in 1..ne :
             data.cp_controls_edge_attr.rows[k][1] + 1
               <= Len(edges[re.rows[2][k] + 1].t.geom.poles)

\* two edges and a face own control points: the points of the second edge
\* follow those of the first, and the points of the face come last
C24_Witness ==
  /\ pc = "done"
  /\ \E j, k \in 1..data.cp_controls_edge.shape[2] :
       /\ j < k
       /\ data.cp_controls_edge.rows[2][j] < data.cp_controls_edge.rows[2][k]
       /\ data.cp_controls_edge_attr.rows[k][1] = 0
  /\ data.cp_controls_face.shape[2] >= 4
  /\ data.cp_controls_face.rows[1][1] = data.cp_controls_edge.shape[2]
  /\ data.cp_controls_face.rows[1][1] >= 5

\* the columns a list of assignments writes, in order
WrittenColumns(writes) == [k \in 1..Len(writes) |-> writes[k][1]]

\* the descriptor with every Optional field set
AllSetEdge(g) ==
  [g EXCEPT !.line_direction = Some(<<1, 1, 1>>), !.center = Some(<<1, 1, 1>>),
            !.axis = Some(<<1, 1, 1>>), !.radius = Some(1)]

AllSetFace(g) ==
  [g EXCEPT !.plane_normal = Some(<<1, 1, 1>>), !.plane_origin = Some(<<1, 1, 1>>),
            !.axis_direction = Some(<<1, 1, 1>>), !.axis_origin = Some(<<1, 1, 1>>),
            !.radius = Some(1), !.radius2 = Some(1)]

\* the assignments to a row of the given width whose type block has n
\* columns: the first sets the type flag inside the block, the others go to
\* increasing columns after the block, none twice and none outside the row
OrderedWrites(writes, n, width) ==
  LET cols == WrittenColumns(writes)
  IN  /\ cols[1] \in 0..(n - 1)
      /\ cols[2] = n
      /\ \A k \in 2..Len(cols) : cols[k] \in n..(width - 1)
      /\ \A k \in 3..Len(cols) : cols[k - 1] < cols[k]

\* with every field set the assignments and the type block fill the row
FullRow(writes, n, width) ==
  LET cols == WrittenColumns(writes)
  IN  (0..(n - 1)) \cup {cols[k] : k \in 2..Len(cols)} = 0..(width - 1)

\* C25: in build_edge_features and build_face_features every field is
\* written to its own consecutive columns in the documented order; the
\* ranges are disjoint, lie after the one-hot block, fill the row together
\* with it, and no write falls outside the row: orientation is at the
\* first column after the block, the edge radius at NUM_CURVE_TYPES + 14,
\* the plane normal at NUM_SURFACE_TYPES + 9..11, the face radii at
\* NUM_SURFACE_TYPES + 21 and + 22.
C25_ColumnRanges ==
  pc = "done" =>
    /\ \A e \in 1..Len(edge_geoms) :
         LET g == edge_geoms[e]
             row == data.edge_x.rows[e]
             width == data.edge_x.shape[2]
         IN  /\ DOMAIN row = 0..(width - 1)
             /\ OrderedWrites(EdgeWrites(g), NUM_CURVE_TYPES, width)
             /\ OrderedWrites(EdgeWrites(AllSetEdge(g)), NUM_CURVE_TYPES, width)
             /\ FullRow(EdgeWrites(AllSetEdge(g)), NUM_CURVE_TYPES, width)
             /\ row[NUM_CURVE_TYPES] = g.orientation
             /\ \A k \in 1..3 :
                  /\ row[NUM_CURVE_TYPES + 4 + k] = Filled3(g.line_direction, k)
                  /\ row[NUM_CURVE_TYPES + 7 + k] = Filled3(g.center, k)
                  /\ row[NUM_CURVE_TYPES + 10 + k] = Filled3(g.axis, k)
             /\ row[NUM_CURVE_TYPES + 14] = Filled(g.radius)
    /\ \A f \in 1..Len(face_geoms) :
         LET g == face_geoms[f]
             row == data.face_x.rows[f]
             width == data.face_x.shape[2]
         IN  /\ DOMAIN row = 0..(width - 1)
             /\ OrderedWrites(FaceWrites(g), NUM_SURFACE_TYPES, width)
             /\ OrderedWrites(FaceWrites(AllSetFace(g)), NUM_SURFACE_TYPES, width)
             /\ FullRow(FaceWrites(AllSetFace(g)), NUM_SURFACE_TYPES, width)
             /\ row[NUM_SURFACE_TYPES] = g.orientation
             /\ \A k \in 1..3 :
                  /\ row[NUM_SURFACE_TYPES + 8 + k] = Filled3(g.plane_normal, k)
                  /\ row[NUM_SURFACE_TYPES + 11 + k] = Filled3(g.plane_origin, k)
                  /\ row[NUM_SURFACE_TYPES + 14 + k] = Filled3(g.axis_direction, k)
                  /\ row[NUM_SURFACE_TYPES + 17 + k] = Filled3(g.axis_origin, k)
             /\ row[NUM_SURFACE_TYPES + 21] = Filled(g.radius)
             /\ row[NUM_SURFACE_TYPES + 22] = Filled(g.radius2)

\* a graph with a circular edge, a plane face and a face with a radius:
\* each value is in its documented column
C25_Witness ==
  /\ pc = "done"
  /\ \E e \in 1..Len(edge_geoms) :
       /\ edge_geoms[e].radius /= None
       /\ data.edge_x.rows[e][NUM_CURVE_TYPES + 14] = edge_geoms[e].radius[1]
       /\ edge_geoms[e].radius[1] > 0
  /\ \E f \in 1..Len(face_geoms) :
       /\ face_geoms[f].plane_normal /= None
       /\ <<data.face_x.rows[f][NUM_SURFACE_TYPES + 9],
            data.face_x.rows[f][NUM_SURFACE_TYPES + 10],
            data.face_x.rows[f][NUM_SURFACE_TYPES + 11]>>
            = face_geoms[f].plane_normal[1]
       /\ face_geoms[f].plane_normal[1] /= <<0, 0, 0>>
  /\ \E f \in 1..Len(face_geoms) :
       /\ face_geoms[f].radius /= None
       /\ data.face_x.rows[f][NUM_SURFACE_TYPES + 21] = face_geoms[f].radius[1]
       /\ face_geoms[f].radius[1] > 0

\* the orientation value of a kernel orientation flag
Sign(flag) == IF flag = TopAbs_FORWARD THEN 1 ELSE -1

\* C26: the orientation of every edge and face node is +1 or -1: +1 when
\* the flag of the registered occurrence is FORWARD, -1 for any other flag;
\* the registered occurrence is the first one met in the traversal, and a
\* later occurrence of the entity, whatever its orientation, neither
\* replaces it nor adds a node.
C26_Orientation ==
  pc = "done" =>
    LET firstEdges == FirstSeen(Explore(shape, "EDGE"))
        firstFaces == FirstSeen(Explore(shape, "FACE"))
    IN  /\ data.edge_x.shape[1] = Len(firstEdges)
        /\ data.face_x.shape[1] = Len(firstFaces)
        /\ \A e \in 1..Len(firstEdges) :
             /\ data.edge_x.rows[e][NUM_CURVE_TYPES] \in {1, -1}
             /\ data.edge_x.rows[e][NUM_CURVE_TYPES] = Sign(firstEdges[e].ori)
        /\ \A f \in 1..Len(firstFaces) :
             /\ data.face_x.rows[f][NUM_SURFACE_TYPES] \in {1, -1}
             /\ data.face_x.rows[f][NUM_SURFACE_TYPES] = Sign(firstFaces[f].ori)

\* an edge met forward and met again with another orientation keeps +1,
\* and an edge first met with a flag that is neither FORWARD nor REVERSED
\* has -1
C26_Witness ==
  /\ pc = "done"
  /\ LET occs == Explore(shape, "EDGE")
     IN  /\ \E j, k \in 1..Len(occs) :
              /\ j < k
              /\ IsSame(occs[j], occs[k])
              /\ occs[j].ori = TopAbs_FORWARD
              /\ occs[k].ori /= TopAbs_FORWARD
              /\ \A i \in 1..(j - 1) : ~IsSame(occs[i], occs[j])
              /\ data.edge_x.rows[edge_map[_shape_hash(occs[j])] + 1][NUM_CURVE_TYPES] = 1
         /\ \E e \in 1..Len(edges) :
              /\ edges[e].ori \in {TopAbs_INTERNAL, TopAbs_EXTERNAL}
              /\ data.edge_x.rows[e][NUM_CURVE_TYPES] = -1

\* every occurrence of the kind met in the traversal is the entity that is
\* registered under its index
OwnIndex(kind, map, list) ==
  \A k \in 1..Len(Explore(shape, kind)) :
    LET o == Explore(shape, kind)[k]
    IN  /\ _shape_hash(o) \in DOMAIN map
        /\ IsSame(list[map[_shape_hash(o)] + 1], o)

\* every pair (a, b) of the relation stands for a sub-shape of entity b that
\* is entity a
OwnPairs(rel, subs, owners, kind) ==
  \A k \in 1..Len(rel) :
    \E j \in 1..Len(Explore(owners[rel[k][2] + 1], kind)) :
      IsSame(Explore(owners[rel[k][2] + 1], kind)[j], subs[rel[k][1] + 1])

\* C27: two entities are merged into one node only if the kernel's identity
\* comparison says they are the same: entities the kernel distinguishes are
\* never registered under one index and no pair of a relation list gives an
\* occurrence of one entity to another, also when both have the same hash
\* code.
C27_MergeOnlySame ==
  pc = "done" =>
    /\ OwnIndex("VERTEX", vertex_map, vertices)
    /\ OwnIndex("EDGE", edge_map, edges)
    /\ OwnIndex("FACE", face_map, faces)
    /\ OwnPairs(vertex_to_edge, vertices, edges, "VERTEX")
    /\ OwnPairs(edge_to_face, edges, faces, "EDGE")

====
